---------------------------- MODULE Spec2Model ----------------------------
(***************************************************************************)
(* Galileo, src-tauri: the background-removal command                      *)
(* (background_remove.rs, remove_background_macos and its helpers).        *)
(*                                                                         *)
(* One call of remove_background_macos is modelled as a state machine      *)
(* whose program counter pc walks the statements of the function in        *)
(* source order.  Every value returned by a platform call (base64 decode,  *)
(* ImageIO, Vision, CoreVideo) is drawn from a small set at the step that  *)
(* makes the call.  The mask buffer is a byte array of                     *)
(* height * bytes_per_row samples addressed by 0-based byte offsets.       *)
(*                                                                         *)
(* image::imageops::resize (FilterType::Triangle) and the PNG writer live  *)
(* in the image crate; they are modelled at their call sites from the      *)
(* crate's algorithm (vertical pass then horizontal pass, weights of the   *)
(* triangle kernel, clamp-to-edge window, round-half-away-from-zero),      *)
(* with exact rational arithmetic in place of f32.                         *)
(***************************************************************************)
EXTENDS Integers, Sequences, FiniteSets, TLC

\* ------------------------------------------------------------------ bounds
\* mask buffer width and height range over 0..MaxMaskDim
MaxMaskDim == 2
\* the mask buffer holds at most MaxBufferBytes bytes (height * bytes_per_row)
MaxBufferBytes == 6
\* the probed image width and height range over 0..MaxTargetDim
MaxTargetDim == 3

\* sample bytes a mask buffer may hold (0 = background, others = foreground)
Samples == {0, 200}
\* values VNGenerateForegroundInstanceMaskRequest.revision may report
Revisions == {1, 2}

\* ------------------------------------------------------- program constants
\* u8::MAX, the foreground value written to the mask and the RGB constant
U8Max == 255

VARIABLES
    pc,            \* position in remove_background_macos / generate_mask_from_vision
    target,        \* (target_width, target_height) returned by the probe, or <<>>
    probe_result,  \* "none" | "ok" | "err": outcome of decode_image_dimensions
    seg_invoked,   \* generate_mask_from_vision has been entered
    revision,      \* request.revision, 0 before it is read
    lock_calls,    \* calls of CVPixelBufferLockBaseAddress
    lock_held,     \* the base address is locked
    locks,         \* successful lock acquisitions
    unlocks,       \* calls of CVPixelBufferUnlockBaseAddress
    buf,           \* the mask buffer as read after the lock: width, height, bytes_per_row, base_null, data
    x, y,          \* loop indices of the extraction
    reads,         \* byte offsets dereferenced so far
    unsafe_read,   \* some sample was dereferenced while the lock was not held
    mask,          \* Vec<u8> mask
    mask_dims,     \* (mask_width, mask_height) returned by generate_mask_from_vision, or <<>>
    resized,       \* image::imageops::resize was called
    scaled_mask,   \* Vec<u8> scaled_mask
    rgba,          \* Vec<u8> rgba
    result,        \* the value remove_background_macos returns
    vision,        \* outcome of the Vision request, "none" before it is made
    stages,        \* the stages of the call that have been started, in order
    \* main.rs, encode_png
    enc_pc,        \* position in encode_png
    enc_args,      \* EncodePngArgs: width, height (u32) and the build's overflow checks
    enc_len,       \* rgba_bytes.len() once the raster is decoded
    enc_result,    \* what encode_png returns: kind "none" | "err" | "panic" | "ok"
    \* unsplash.rs, unsplash_track_download and unsplash_fetch_image
    url_pc,        \* position in the command
    url_cmd,       \* "track_download" | "fetch_image"
    url_raw,       \* the URL text of the arguments, by its parts
    url_parsed,    \* the Url that parse_and_validate_https_url returned, or NoUrl
    url_requests,  \* the HTTP requests sent, as the URLs they were sent to
    url_result,    \* what the command returns
    \* figma.rs, the figma_fetch_* commands
    fig_pc,        \* position in the command
    fig_cmd,       \* "fetch_file" | "fetch_nodes" | "fetch_images" | "fetch_local_variables"
    fig_args,      \* the arguments: file_key, token, geometry, node_ids, format
    fig_key,       \* the file key validate_file_key returned, or <<>>
    fig_client,    \* build_client has been called
    fig_attempts,  \* attempts of send_with_rate_limit_retry
    fig_sent,      \* HTTP requests sent
    fig_response,  \* the last response: status and retry-after header
    fig_slept,     \* seconds of the last thread::sleep, -1 before any
    fig_result,    \* what the command returns
    \* calls of pure functions: normalize_node_ids, format_error, format_unsplash_http_error
    fn_pc,         \* "call" | "done"
    fn_input,      \* the arguments
    fn_output,     \* the value returned
    \* draft_store.rs over the file system
    fs,            \* file name -> content, or NoFile
    fs_case_sensitive, \* whether the file system tells names apart by letter case
    d_pc,          \* per call: position in save_draft
    d_args,        \* per call: the command and its arguments
    d_result,      \* per call: what the command returned
    d_saved,       \* per trimmed key: the payload of the last save_draft that returned Ok
    \* main.rs, AuthDeepLinkState
    queue,         \* state.queue: VecDeque<String>
    q_lock,        \* the thread holding the mutex, 0 when free
    q_pc,          \* per thread: position in its call
    q_urls,        \* per thread: the urls of its push that are still to be handled
    q_drained,     \* per thread: what its auth_last_deep_link_get returned, until its next call
    q_calls        \* calls made so far

pipeline_vars == <<pc, target, probe_result, seg_invoked, revision, lock_calls, lock_held,
                   locks, unlocks, buf, x, y, reads, unsafe_read, mask, mask_dims, resized,
                   scaled_mask, rgba, result, vision, stages>>
encode_vars == <<enc_pc, enc_args, enc_len, enc_result>>
url_vars == <<url_pc, url_cmd, url_raw, url_parsed, url_requests, url_result>>

figma_vars == <<fig_pc, fig_cmd, fig_args, fig_key, fig_client, fig_attempts, fig_sent,
                fig_response, fig_slept, fig_result>>
fn_vars == <<fn_pc, fn_input, fn_output>>
draft_vars == <<fs, fs_case_sensitive, d_pc, d_args, d_result, d_saved>>
queue_vars == <<queue, q_lock, q_pc, q_urls, q_drained, q_calls>>

vars_except_pipeline == <<encode_vars, url_vars, figma_vars, fn_vars, draft_vars, queue_vars>>
vars_except_encode == <<pipeline_vars, url_vars, figma_vars, fn_vars, draft_vars, queue_vars>>
vars_except_url == <<pipeline_vars, encode_vars, figma_vars, fn_vars, draft_vars, queue_vars>>
vars_except_figma == <<pipeline_vars, encode_vars, url_vars, fn_vars, draft_vars, queue_vars>>
vars_except_fn == <<pipeline_vars, encode_vars, url_vars, figma_vars, draft_vars, queue_vars>>
vars_except_draft == <<pipeline_vars, encode_vars, url_vars, figma_vars, fn_vars, queue_vars>>
vars_except_queue == <<pipeline_vars, encode_vars, url_vars, figma_vars, fn_vars, draft_vars>>

vars == <<pipeline_vars, encode_vars, url_vars, figma_vars, fn_vars, draft_vars, queue_vars>>

NoBuf == [width |-> 0, height |-> 0, bytes_per_row |-> 0, base_null |-> TRUE, data |-> <<>>]
NoPng == [width |-> 0, height |-> 0, data |-> <<>>]
NoResult == [ok |-> FALSE, err |-> "", detail |-> "", png |-> NoPng,
             width |-> 0, height |-> 0, revision |-> 0]

\* Err(String): msg is the message, detail the text of a wrapped inner error ({e})
Err(msg, detail) == [ok |-> FALSE, err |-> msg, detail |-> detail, png |-> NoPng,
                     width |-> 0, height |-> 0, revision |-> 0]

\* ----------------------------------------------------------- pure helpers
Min(a, b) == IF a < b THEN a ELSE b
Max(a, b) == IF a > b THEN a ELSE b
Abs(a) == IF a < 0 THEN -a ELSE a
Clamp(v, lo, hi) == IF v < lo THEN lo ELSE IF v > hi THEN hi ELSE v
\* floor and ceiling of the rational n/d, d > 0
Floor(n, d) == n \div d
Ceil(n, d) == -((-n) \div d)

RECURSIVE SumTo(_, _, _)
\* sum of f[i] for i in lo..hi-1
SumTo(f, lo, hi) == IF lo >= hi THEN 0 ELSE f[lo] + SumTo(f, lo + 1, hi)

NoEncArgs == [width |-> 0, height |-> 0, overflow_checks |-> FALSE]
NoEncResult == [kind |-> "none", err |-> "", png |-> NoPng]
\* no call of encode_png is in progress
EncodeIdle ==
    /\ enc_pc = "idle"
    /\ enc_args = NoEncArgs
    /\ enc_len = 0
    /\ enc_result = NoEncResult

NoRawUrl == [scheme |-> "", userinfo |-> "", host |-> "", port |-> ""]
NoUrl == [scheme |-> "", userinfo |-> "", host |-> "", port |-> ""]
NoUrlResult == [kind |-> "none", err |-> "", detail |-> ""]
\* no unsplash command is in progress
UrlIdle ==
    /\ url_pc = "idle"
    /\ url_cmd = "none"
    /\ url_raw = NoRawUrl
    /\ url_parsed = NoUrl
    /\ url_requests = <<>>
    /\ url_result = NoUrlResult

NoFigArgs == [file_key |-> <<>>, token |-> <<>>, geometry |-> "None",
              node_ids |-> <<>>, format |-> "None"]
NoResponse == [status |-> 0, retry_after |-> <<>>, has_retry_after |-> FALSE]
NoMessage == [category |-> "", status |-> 0, excerpt |-> <<>>, suffix |-> ""]
NoFigResult == [kind |-> "none", err |-> "", detail |-> "", message |-> NoMessage]
\* no figma command is in progress
FigmaIdle ==
    /\ fig_pc = "idle"
    /\ fig_cmd = "none"
    /\ fig_args = NoFigArgs
    /\ fig_key = <<>>
    /\ fig_client = FALSE
    /\ fig_attempts = 0
    /\ fig_sent = 0
    /\ fig_response = NoResponse
    /\ fig_slept = -1
    /\ fig_result = NoFigResult

\* no pure function is being applied
FnIdle ==
    /\ fn_pc = "idle"
    /\ fn_input = <<>>
    /\ fn_output = <<>>

\* no draft command has run: the drafts directory is empty
DraftIdle ==
    /\ fs = <<>>
    /\ fs_case_sensitive = TRUE
    /\ d_pc = <<>>
    /\ d_args = <<>>
    /\ d_result = <<>>
    /\ d_saved = <<>>

\* AuthDeepLinkState::default(), no call in progress
QueueIdle ==
    /\ queue = <<>>
    /\ q_lock = 0
    /\ q_pc = <<>>
    /\ q_urls = <<>>
    /\ q_drained = <<>>
    /\ q_calls = 0

\* the state of remove_background on entry
PipelineInit ==
    /\ pc = "start"
    /\ target = <<>>
    /\ probe_result = "none"
    /\ seg_invoked = FALSE
    /\ revision = 0
    /\ lock_calls = 0
    /\ lock_held = FALSE
    /\ locks = 0
    /\ unlocks = 0
    /\ buf = NoBuf
    /\ x = 0
    /\ y = 0
    /\ reads = {}
    /\ unsafe_read = FALSE
    /\ mask = <<>>
    /\ mask_dims = <<>>
    /\ resized = FALSE
    /\ scaled_mask = <<>>
    /\ rgba = <<>>
    /\ result = NoResult
    /\ vision = "none"
    /\ stages = <<>>

Init ==
    /\ PipelineInit
    /\ EncodeIdle /\ UrlIdle /\ FigmaIdle /\ FnIdle /\ DraftIdle /\ QueueIdle

\* background_remove.rs:27-31  remove_background built for a target other than macOS
UnsupportedPlatform ==
    /\ pc = "start"
    /\ pc' = "done"
    /\ result' = Err("unsupported_platform", "")
    /\ UNCHANGED <<target, probe_result, seg_invoked, revision, lock_calls, lock_held,
                   locks, unlocks, buf, x, y, reads, unsafe_read, mask, mask_dims,
                   resized, scaled_mask, rgba,
                   vision, stages>>
    /\ UNCHANGED vars_except_pipeline

\* background_remove.rs:90-92  base64 decode of args.image_base64
DecodeBase64Fail ==
    /\ pc = "start"
    /\ pc' = "done"
    /\ result' = Err("Failed to decode image bytes", "base64")
    /\ UNCHANGED <<target, probe_result, seg_invoked, revision, lock_calls, lock_held,
                   locks, unlocks, buf, x, y, reads, unsafe_read, mask, mask_dims,
                   resized, scaled_mask, rgba,
                   vision, stages>>
    /\ UNCHANGED vars_except_pipeline

DecodeBase64Ok ==
    /\ pc = "start"
    /\ pc' = "probe"
    /\ UNCHANGED <<target, probe_result, seg_invoked, revision, lock_calls, lock_held,
                   locks, unlocks, buf, x, y, reads, unsafe_read, mask, mask_dims,
                   resized, scaled_mask, rgba, result,
                   vision, stages>>
    /\ UNCHANGED vars_except_pipeline

\* ------------------------------------------------ decode_image_dimensions
\* the three early returns of decode_image_dimensions (lines 232-243)
ProbeErrors == {"Failed to create NSData", "Failed to create image source",
                "Failed to decode image"}

\* values CGImageGetWidth / CGImageGetHeight may return, after `as u32`
ProbeDims == 0..MaxTargetDim

\* background_remove.rs:244-248  Ok((width, height)): the pair is returned as read
decode_image_dimensions(width, height) == <<width, height>>

\* ProbeFail with the error dropped (unwrap_or_default in place of `?`)
ProbeFailIgnored ==
    /\ pc = "probe"
    /\ target' = <<0, 0>>
    /\ probe_result' = "err"
    /\ pc' = "segment"
    /\ stages' = Append(stages, "probe")
    /\ UNCHANGED <<seg_invoked, revision, lock_calls, lock_held, locks, unlocks, buf, x, y,
                   reads, unsafe_read, mask, mask_dims, resized, scaled_mask, rgba, result,
                   vision>>
    /\ UNCHANGED vars_except_pipeline

\* ProbeFail with the inner error returned as it is (`?` without map_err)
ProbeFailUnwrapped ==
    /\ pc = "probe"
    /\ \E e \in ProbeErrors : result' = Err(e, "")
    /\ probe_result' = "err"
    /\ pc' = "done"
    /\ stages' = Append(stages, "probe")
    /\ UNCHANGED <<target, seg_invoked, revision, lock_calls, lock_held, locks, unlocks,
                   buf, x, y, reads, unsafe_read, mask, mask_dims, resized, scaled_mask,
                   rgba, vision>>
    /\ UNCHANGED vars_except_pipeline

\* background_remove.rs:94-95 with 229-243: the probe fails, `?` returns the error
ProbeFail ==
    /\ pc = "probe"
    /\ \E e \in ProbeErrors : result' = Err("Failed to decode image", e)
    /\ probe_result' = "err"
    /\ pc' = "done"
    /\ stages' = Append(stages, "probe")
    /\ UNCHANGED <<target, seg_invoked, revision, lock_calls, lock_held, locks, unlocks,
                   buf, x, y, reads, unsafe_read, mask, mask_dims, resized, scaled_mask,
                   rgba,
                   vision>>
    /\ UNCHANGED vars_except_pipeline

\* background_remove.rs:94-95 with 244-248: the probe succeeds
ProbeOk ==
    /\ pc = "probe"
    /\ \E w \in ProbeDims, h \in ProbeDims : target' = decode_image_dimensions(w, h)
    /\ probe_result' = "ok"
    /\ pc' = "segment"
    /\ stages' = Append(stages, "probe")
    /\ UNCHANGED <<seg_invoked, revision, lock_calls, lock_held, locks, unlocks, buf, x, y,
                   reads, unsafe_read, mask, mask_dims, resized, scaled_mask, rgba, result,
                   vision>>
    /\ UNCHANGED vars_except_pipeline

\* ---------------------------------------------- generate_mask_from_vision
\* outcomes of the Vision request that return before request.revision is read
\* (lines 138-145) and after it (lines 151-181)
VisionOutcomesEarly == {"nsdata_null", "request_null"}
VisionOutcomesLate == {"handler_null", "perform_failed", "perform_failed_described",
                       "no_results", "observation_null", "mask_null"}

\* VisionError with one message for every failure of the request
VisionErrorGeneric(outcome) == "Vision request failed"

\* the Err(..) of each early return of generate_mask_from_vision (lines 138-181);
\* "localizedDescription" stands for the text of the NSError of performRequests
VisionError(outcome) ==
    CASE outcome = "nsdata_null" -> "Failed to create NSData"
      [] outcome = "request_null" -> "Failed to create Vision request"
      [] outcome = "handler_null" -> "Failed to create Vision handler"
      [] outcome = "perform_failed" -> "Vision request failed"
      [] outcome = "perform_failed_described" -> "localizedDescription"
      [] outcome = "no_results" -> "no_subject_detected"
      [] outcome = "observation_null" -> "no_subject_detected"
      [] outcome = "mask_null" -> "Failed to access mask pixels"

\* background_remove.rs:137-145: NSData or the request could not be created
VisionFailEarly ==
    /\ pc = "segment"
    /\ seg_invoked' = TRUE
    /\ \E o \in VisionOutcomesEarly :
          /\ vision' = o
          /\ result' = Err(VisionError(o), "")
    /\ pc' = "done"
    /\ stages' = Append(stages, "segmentation")
    /\ UNCHANGED <<target, probe_result, revision, lock_calls, lock_held, locks, unlocks,
                   buf, x, y, reads, unsafe_read, mask, mask_dims, resized, scaled_mask,
                   rgba>>
    /\ UNCHANGED vars_except_pipeline

\* VisionFailLate with the request made again after a failure
VisionFailRetry ==
    /\ pc = "segment"
    /\ seg_invoked' = TRUE
    /\ \E r \in Revisions : revision' = r
    /\ \E o \in VisionOutcomesLate : vision' = o
    /\ pc' = "segment"
    /\ stages' = Append(stages, "segmentation")
    /\ UNCHANGED <<target, probe_result, lock_calls, lock_held, locks, unlocks, buf, x, y,
                   reads, unsafe_read, mask, mask_dims, resized, scaled_mask, rgba, result>>
    /\ UNCHANGED vars_except_pipeline

\* background_remove.rs:147-181: the request fails, reports no instance or no mask
VisionFailLate ==
    /\ pc = "segment"
    /\ seg_invoked' = TRUE
    /\ \E r \in Revisions : revision' = r
    /\ \E o \in VisionOutcomesLate :
          /\ vision' = o
          /\ result' = Err(VisionError(o), "")
    /\ pc' = "done"
    /\ stages' = Append(stages, "segmentation")
    /\ UNCHANGED <<target, probe_result, lock_calls, lock_held, locks, unlocks, buf, x, y,
                   reads, unsafe_read, mask, mask_dims, resized, scaled_mask, rgba>>
    /\ UNCHANGED vars_except_pipeline

\* background_remove.rs:137-181: the request yields a non-null instanceMask
VisionOk ==
    /\ pc = "segment"
    /\ seg_invoked' = TRUE
    /\ \E r \in Revisions : revision' = r
    /\ vision' = "ok"
    /\ pc' = "lock"
    /\ stages' = Append(stages, "segmentation")
    /\ UNCHANGED <<target, probe_result, lock_calls, lock_held, locks, unlocks, buf, x, y,
                   reads, unsafe_read, mask, mask_dims, resized, scaled_mask, rgba, result>>
    /\ UNCHANGED vars_except_pipeline

\* LockFail with lock_status not tested: the phase goes on without the lock
LockFailIgnored ==
    /\ pc = "lock"
    /\ lock_calls' = lock_calls + 1
    /\ pc' = "layout"
    /\ stages' = Append(stages, "extraction")
    /\ UNCHANGED <<target, probe_result, seg_invoked, revision, lock_held, locks, unlocks,
                   buf, x, y, reads, unsafe_read, mask, mask_dims, resized, scaled_mask,
                   rgba, result,
                   vision>>
    /\ UNCHANGED vars_except_pipeline

\* background_remove.rs:183-186: CVPixelBufferLockBaseAddress returns non-zero
LockFail ==
    /\ pc = "lock"
    /\ lock_calls' = lock_calls + 1
    /\ result' = Err("Failed to lock mask buffer", "")
    /\ pc' = "done"
    /\ stages' = Append(stages, "extraction")
    /\ UNCHANGED <<target, probe_result, seg_invoked, revision, lock_held, locks, unlocks,
                   buf, x, y, reads, unsafe_read, mask, mask_dims, resized, scaled_mask,
                   rgba,
                   vision>>
    /\ UNCHANGED vars_except_pipeline

\* background_remove.rs:183-186: CVPixelBufferLockBaseAddress returns 0
LockOk ==
    /\ pc = "lock"
    /\ lock_calls' = lock_calls + 1
    /\ lock_held' = TRUE
    /\ locks' = locks + 1
    /\ pc' = "layout"
    /\ stages' = Append(stages, "extraction")
    /\ UNCHANGED <<target, probe_result, seg_invoked, revision, unlocks, buf, x, y, reads,
                   unsafe_read, mask, mask_dims, resized, scaled_mask, rgba, result,
                   vision>>
    /\ UNCHANGED vars_except_pipeline

\* (width, height, bytes_per_row) a CVPixelBuffer may report
BufferLayouts ==
    {l \in (0..MaxMaskDim) \X (0..MaxMaskDim) \X (0..MaxBufferBytes) :
        l[2] * l[3] <= MaxBufferBytes}

\* the bytes of a buffer of the given layout, byte offset o at data[o + 1]
BufferData(l) == [1..(l[2] * l[3]) -> Samples]

\* background_remove.rs:197
bytes_per_pixel(width, bytes_per_row) == IF width > 0 THEN bytes_per_row \div width ELSE 0

\* DegenerateStride with the test left out
NoStrideCheck(bpp) == FALSE

\* background_remove.rs:198  if bytes_per_pixel == 0
DegenerateStride(bpp) == bpp = 0

\* SampleOffset with the row start taken as y * width * bytes_per_pixel
SampleOffsetPacked(xx, yy, width, bytes_per_row, bpp) == yy * width * bpp + xx * bpp

\* background_remove.rs:205-207  base.add(y * bytes_per_row).add(x * bytes_per_pixel)
SampleOffset(xx, yy, width, bytes_per_row, bpp) == yy * bytes_per_row + xx * bpp

\* Binarize writing the test's truth value
BinarizeAsBool(value) == IF value > 0 THEN 1 ELSE 0

\* Binarize keeping the sample
BinarizeIdentity(value) == value

\* Binarize with the two values exchanged
BinarizeInverted(value) == IF value > 0 THEN 0 ELSE U8Max

\* background_remove.rs:208  if value > 0 { 255 } else { 0 }
Binarize(value) == IF value > 0 THEN U8Max ELSE 0

\* background_remove.rs:188-195: the base address is null
LayoutBaseNull ==
    /\ pc = "layout"
    /\ \E l \in BufferLayouts :
          buf' = [width |-> l[1], height |-> l[2], bytes_per_row |-> l[3],
                  base_null |-> TRUE, data |-> <<>>]
    /\ unlocks' = unlocks + 1
    /\ lock_held' = FALSE
    /\ result' = Err("Failed to read mask buffer", "")
    /\ pc' = "done"
    /\ UNCHANGED <<target, probe_result, seg_invoked, revision, lock_calls, locks, x, y,
                   reads, unsafe_read, mask, mask_dims, resized, scaled_mask, rgba,
                   vision, stages>>
    /\ UNCHANGED vars_except_pipeline

\* LayoutDegenerate returning without the unlock
LayoutDegenerateNoUnlock ==
    /\ pc = "layout"
    /\ \E l \in BufferLayouts : \E d \in BufferData(l) :
          /\ DegenerateStride(bytes_per_pixel(l[1], l[3]))
          /\ buf' = [width |-> l[1], height |-> l[2], bytes_per_row |-> l[3],
                     base_null |-> FALSE, data |-> d]
    /\ result' = Err("Invalid mask buffer stride", "")
    /\ pc' = "done"
    /\ UNCHANGED <<target, probe_result, seg_invoked, revision, lock_calls, lock_held,
                   locks, unlocks, x, y, reads, unsafe_read, mask, mask_dims, resized,
                   scaled_mask, rgba,
                   vision, stages>>
    /\ UNCHANGED vars_except_pipeline

\* background_remove.rs:188-201: width == 0 or bytes_per_row / width == 0
LayoutDegenerate ==
    /\ pc = "layout"
    /\ \E l \in BufferLayouts : \E d \in BufferData(l) :
          /\ DegenerateStride(bytes_per_pixel(l[1], l[3]))
          /\ buf' = [width |-> l[1], height |-> l[2], bytes_per_row |-> l[3],
                     base_null |-> FALSE, data |-> d]
    /\ unlocks' = unlocks + 1
    /\ lock_held' = FALSE
    /\ result' = Err("Invalid mask buffer stride", "")
    /\ pc' = "done"
    /\ UNCHANGED <<target, probe_result, seg_invoked, revision, lock_calls, locks, x, y,
                   reads, unsafe_read, mask, mask_dims, resized, scaled_mask, rgba,
                   vision, stages>>
    /\ UNCHANGED vars_except_pipeline

\* background_remove.rs:188-203: the layout is accepted, mask = vec![0; width * height]
LayoutOk ==
    /\ pc = "layout"
    /\ \E l \in BufferLayouts : \E d \in BufferData(l) :
          /\ ~DegenerateStride(bytes_per_pixel(l[1], l[3]))
          /\ buf' = [width |-> l[1], height |-> l[2], bytes_per_row |-> l[3],
                     base_null |-> FALSE, data |-> d]
          /\ mask' = [i \in 1..(l[1] * l[2]) |-> 0]
          /\ pc' = IF l[1] = 0 \/ l[2] = 0 THEN "unlock" ELSE "extract"
    /\ x' = 0
    /\ y' = 0
    /\ UNCHANGED <<target, probe_result, seg_invoked, revision, lock_calls, lock_held,
                   locks, unlocks, reads, unsafe_read, mask_dims, resized, scaled_mask,
                   rgba, result,
                   vision, stages>>
    /\ UNCHANGED vars_except_pipeline

\* background_remove.rs:204-210: one iteration of the inner loop.  A dereference
\* past the end of the buffer is undefined behaviour: it may yield any byte.
Sample ==
    /\ pc = "extract"
    /\ LET bpp == bytes_per_pixel(buf.width, buf.bytes_per_row)
           off == SampleOffset(x, y, buf.width, buf.bytes_per_row, bpp)
       IN  /\ reads' = reads \cup {off}
           /\ unsafe_read' = (unsafe_read \/ ~lock_held)
           /\ \E value \in (IF off < Len(buf.data) THEN {buf.data[off + 1]} ELSE Samples) :
                 mask' = [mask EXCEPT ![y * buf.width + x + 1] = Binarize(value)]
    /\ IF x + 1 < buf.width
          THEN /\ x' = x + 1
               /\ y' = y
               /\ pc' = "extract"
          ELSE /\ x' = 0
               /\ y' = y + 1
               /\ pc' = IF y + 1 < buf.height THEN "extract" ELSE "unlock"
    /\ UNCHANGED <<target, probe_result, seg_invoked, revision, lock_calls, lock_held,
                   locks, unlocks, buf, mask_dims, resized, scaled_mask, rgba, result,
                   vision, stages>>
    /\ UNCHANGED vars_except_pipeline

\* Unlock handing the mask to the compositor without the resampling step
UnlockSkipResample ==
    /\ pc = "unlock"
    /\ unlocks' = unlocks + 1
    /\ lock_held' = FALSE
    /\ mask_dims' = <<buf.width, buf.height>>
    /\ scaled_mask' = mask
    /\ pc' = "composite"
    /\ UNCHANGED <<buf, target, probe_result, seg_invoked, revision, lock_calls, locks, x, y,
                   reads, unsafe_read, mask, resized, rgba, result, vision, stages>>
    /\ UNCHANGED vars_except_pipeline

\* background_remove.rs:212-214: unlock and return Ok((mask, width, height, revision));
\* buf keeps the layout and bytes that were read under the lock
Unlock ==
    /\ pc = "unlock"
    /\ unlocks' = unlocks + 1
    /\ lock_held' = FALSE
    /\ mask_dims' = <<buf.width, buf.height>>
    /\ pc' = "resample"
    /\ UNCHANGED <<buf, target, probe_result, seg_invoked, revision, lock_calls, locks, x, y,
                   reads, unsafe_read, mask, resized, scaled_mask, rgba, result,
                   vision, stages>>
    /\ UNCHANGED vars_except_pipeline

\* ------------------------------------- image::imageops::resize, Triangle
\* The filter has support 1 and kernel 1 - |t| on |t| < 1.  For output index o of
\* an axis scaled from src to dst samples: ratio = src/dst, sratio = max(ratio, 1),
\* the centre is (o + 0.5) * ratio, the window is
\* [floor(centre - sratio), ceil(centre + sratio)) clamped to the source, and source
\* index i weighs kernel((i - (centre - 0.5)) / sratio).  With S = max(src, dst)
\* every quantity is a rational of denominator 2 * dst (window) or 2 * S (weight).
WindowLeft(o, src, dst) ==
    Clamp(Floor((2 * o + 1) * src - 2 * Max(src, dst), 2 * dst), 0, src - 1)

WindowRight(o, src, dst) ==
    Clamp(Ceil((2 * o + 1) * src + 2 * Max(src, dst), 2 * dst),
          WindowLeft(o, src, dst) + 1, src)

\* TriangleWeight measured from the pixel centre without the half-sample shift
TriangleWeightNoShift(i, o, src, dst) ==
    Max(0, 2 * Max(src, dst) - Abs(2 * dst * i - (2 * o + 1) * src))

\* the weight of source index i, times 2 * max(src, dst)
TriangleWeight(i, o, src, dst) ==
    Max(0, 2 * Max(src, dst) - Abs(2 * dst * i - (2 * o + 1) * src + dst))

\* the weights of the window of output index o, as a function on the window
Weights(o, src, dst) ==
    [i \in WindowLeft(o, src, dst)..(WindowRight(o, src, dst) - 1) |->
        TriangleWeight(i, o, src, dst)]

WeightSum(o, src, dst) ==
    SumTo(Weights(o, src, dst), WindowLeft(o, src, dst), WindowRight(o, src, dst))

\* FloatNearest(clamp(t, 0, 255)) for t = n / d >= 0: round half away from zero
RoundClamp(n, d) == Clamp(Floor(2 * n + d, 2 * d), 0, U8Max)

\* vertical_sample then horizontal_sample: the output sample (ox, oy); the
\* vertical pass keeps f32 values, only the horizontal pass rounds
ResizedSample(img, w, h, nw, nh, ox, oy) ==
    LET wx == Weights(ox, w, nw)
        wy == Weights(oy, h, nh)
        col == [i \in DOMAIN wx |->
                  SumTo([j \in DOMAIN wy |-> wy[j] * img[j * w + i + 1]],
                        WindowLeft(oy, h, nh), WindowRight(oy, h, nh))]
        num == SumTo([i \in DOMAIN wx |-> wx[i] * col[i]],
                     WindowLeft(ox, w, nw), WindowRight(ox, w, nw))
    IN  RoundClamp(num, WeightSum(ox, w, nw) * WeightSum(oy, h, nh))

\* image::imageops::resize(&img, nw, nh, FilterType::Triangle).into_raw():
\* an empty source gives a zeroed buffer, equal dimensions give a copy
resize(img, w, h, nw, nh) ==
    IF w = 0 \/ h = 0 THEN [k \in 1..(nw * nh) |-> 0]
    ELSE IF <<nw, nh>> = <<w, h>> THEN img
    ELSE [k \in 1..(nw * nh) |->
            ResizedSample(img, w, h, nw, nh, (k - 1) % nw, (k - 1) \div nw)]

\* ImageBuffer::from_raw(width, height, buf): Some iff the buffer is long enough
FromRawOk(width, height, channels, len) == width * height * channels <= len

\* ------------------------------------------------ remove_background_macos
\* NeedsResample always taking the resize branch
AlwaysResample(mdims, tdims) == TRUE

\* background_remove.rs:100  mask_width != target_width || mask_height != target_height
NeedsResample(mdims, tdims) == mdims[1] # tdims[1] \/ mdims[2] # tdims[2]

\* Pixel with the alpha byte first (ARGB)
PixelAlphaFirst(value) == <<value, U8Max, U8Max, U8Max>>

\* background_remove.rs:112  [255, 255, 255, value]
Pixel(value) == <<U8Max, U8Max, U8Max, value>>

\* background_remove.rs:110-113  the RGBA raster of a mask
Composite(m) == [k \in 1..(4 * Len(m)) |-> Pixel(m[((k - 1) \div 4) + 1])[((k - 1) % 4) + 1]]

\* ResultDims reporting the mask's dimensions
ResultDimsOfMask(tdims, mdims) == mdims

\* background_remove.rs:127-128  width: target_width, height: target_height
ResultDims(tdims, mdims) == tdims

\* ResultRevision dropping the value (None)
ResultRevisionNone(rev) == 0

\* background_remove.rs:129 with 214  revision: Some(revision)
ResultRevision(rev) == rev

\* png::Encoder::write_header rejects a zero width or height
PngEncodable(width, height) == width > 0 /\ height > 0

\* the PNG written from an ImageBuffer: its dimensions and its width*height*4 bytes
EncodePng(width, height, raster) ==
    [width |-> width, height |-> height, data |-> SubSeq(raster, 1, width * height * 4)]

\* background_remove.rs:100-105: the mask is resized to the target dimensions
ResampleResize ==
    /\ pc = "resample"
    /\ NeedsResample(mask_dims, target)
    /\ IF FromRawOk(mask_dims[1], mask_dims[2], 1, Len(mask))
          THEN /\ scaled_mask' = resize(mask, mask_dims[1], mask_dims[2], target[1], target[2])
               /\ resized' = TRUE
               /\ pc' = "composite"
               /\ UNCHANGED result
          ELSE /\ result' = Err("Failed to create mask image", "")
               /\ pc' = "done"
               /\ UNCHANGED <<scaled_mask, resized>>
    /\ stages' = Append(stages, "resampling")
    /\ UNCHANGED <<target, probe_result, seg_invoked, revision, lock_calls, lock_held,
                   locks, unlocks, buf, x, y, reads, unsafe_read, mask, mask_dims, rgba,
                   vision>>
    /\ UNCHANGED vars_except_pipeline

\* background_remove.rs:106-108: the mask already has the target dimensions
ResamplePassThrough ==
    /\ pc = "resample"
    /\ ~NeedsResample(mask_dims, target)
    /\ scaled_mask' = mask
    /\ pc' = "composite"
    /\ stages' = Append(stages, "resampling")
    /\ UNCHANGED <<target, probe_result, seg_invoked, revision, lock_calls, lock_held,
                   locks, unlocks, buf, x, y, reads, unsafe_read, mask, mask_dims, resized,
                   rgba, result,
                   vision>>
    /\ UNCHANGED vars_except_pipeline

\* background_remove.rs:110-113
CompositeStep ==
    /\ pc = "composite"
    /\ rgba' = Composite(scaled_mask)
    /\ pc' = "encode"
    /\ stages' = Append(stages, "compositing")
    /\ UNCHANGED <<target, probe_result, seg_invoked, revision, lock_calls, lock_held,
                   locks, unlocks, buf, x, y, reads, unsafe_read, mask, mask_dims, resized,
                   scaled_mask, result,
                   vision>>
    /\ UNCHANGED vars_except_pipeline

\* background_remove.rs:115-123: from_raw returns None or write_to fails
EncodeFail ==
    /\ pc = "encode"
    /\ \/ ~FromRawOk(target[1], target[2], 4, Len(rgba))
       \/ ~PngEncodable(target[1], target[2])
    /\ result' = IF ~FromRawOk(target[1], target[2], 4, Len(rgba))
                    THEN Err("Failed to build mask PNG", "")
                    ELSE Err("Failed to encode mask PNG", "png")
    /\ pc' = "done"
    /\ stages' = Append(stages, "encoding")
    /\ UNCHANGED <<target, probe_result, seg_invoked, revision, lock_calls, lock_held,
                   locks, unlocks, buf, x, y, reads, unsafe_read, mask, mask_dims, resized,
                   scaled_mask, rgba,
                   vision>>
    /\ UNCHANGED vars_except_pipeline

\* background_remove.rs:115-131: the PNG is written and the result returned
EncodeOk ==
    /\ pc = "encode"
    /\ FromRawOk(target[1], target[2], 4, Len(rgba))
    /\ PngEncodable(target[1], target[2])
    /\ result' = [ok |-> TRUE, err |-> "", detail |-> "",
                  png |-> EncodePng(target[1], target[2], rgba),
                  width |-> ResultDims(target, mask_dims)[1],
                  height |-> ResultDims(target, mask_dims)[2],
                  revision |-> ResultRevision(revision)]
    /\ pc' = "done"
    /\ stages' = Append(stages, "encoding")
    /\ UNCHANGED <<target, probe_result, seg_invoked, revision, lock_calls, lock_held,
                   locks, unlocks, buf, x, y, reads, unsafe_read, mask, mask_dims, resized,
                   scaled_mask, rgba,
                   vision>>
    /\ UNCHANGED vars_except_pipeline

Next ==
    \/ UnsupportedPlatform
    \/ DecodeBase64Fail
    \/ DecodeBase64Ok
    \/ ProbeFail
    \/ ProbeOk
    \/ VisionFailEarly
    \/ VisionFailLate
    \/ VisionOk
    \/ LockFail
    \/ LockOk
    \/ LayoutBaseNull
    \/ LayoutDegenerate
    \/ LayoutOk
    \/ Sample
    \/ Unlock
    \/ ResampleResize
    \/ ResamplePassThrough
    \/ CompositeStep
    \/ EncodeFail
    \/ EncodeOk

Spec == Init /\ [][Next]_vars

\* ------------------------------------------------------------- properties
\* positions after generate_mask_from_vision has returned
AfterSegmentation == {"resample", "composite", "encode", "done"}
\* positions of the sampling loop and of the unlock that follows it
Extracting == {"extract", "unlock"}
\* positions at which scaled_mask has been computed
AfterResample == {"composite", "encode", "done"}

IsBinary(v) == v = 0 \/ v = 255

\* C1: once the lock is acquired it is released exactly once before the phase
\* returns, on every exit path; unlock is never called without a successful lock.
C1_UnlockExactlyOnce ==
    /\ locks <= 1
    /\ unlocks <= locks
    /\ lock_held <=> (locks = 1 /\ unlocks = 0)
    /\ (seg_invoked /\ pc \in AfterSegmentation) => (unlocks = locks /\ ~lock_held)
    /\ (pc = "done" /\ result.err = "Failed to lock mask buffer") => unlocks = 0

C1_Witness ==
    /\ pc = "done"
    /\ result.err = "Invalid mask buffer stride"
    /\ locks = 1
    /\ unlocks = 1

\* C2: every sample is read while the lock is held: a read is preceded by a
\* successful lock, followed by the unlock, and none happens without the lock.
C2_ReadsUnderLock ==
    /\ ~unsafe_read
    /\ pc = "extract" => lock_held
    /\ reads # {} => locks = 1
    /\ (reads # {} /\ pc \in AfterSegmentation) => (unlocks = 1 /\ ~lock_held)
    /\ locks = 0 => reads = {}

C2_Witness ==
    /\ pc = "done"
    /\ result.ok
    /\ Cardinality(reads) = 4
    /\ unlocks = 1

\* C3: the mask produced from a buffer that passes the layout check has exactly
\* width * height elements and each of them is 0 or 255.
C3_MaskBinary ==
    /\ pc \in Extracting =>
          /\ Len(mask) = buf.width * buf.height
          /\ \A i \in 1..Len(mask) : IsBinary(mask[i])
    /\ mask_dims # <<>> =>
          /\ Len(mask) = mask_dims[1] * mask_dims[2]
          /\ \A i \in 1..Len(mask) : IsBinary(mask[i])

C3_Witness ==
    /\ pc = "unlock"
    /\ buf.width = 2 /\ buf.height = 2
    /\ buf.data = <<200, 0, 0, 200>>
    /\ mask = <<255, 0, 0, 255>>

\* C4: output[y*width + x] is 255 if the byte at offset y*bytesPerRow +
\* x*bytesPerPixel is > 0 and 0 otherwise, for every (x, y) sampled so far; the
\* offsets read are exactly these and each is below height*bytesPerRow.
C4_StrideAwareSampling ==
    pc \in Extracting =>
        LET w == buf.width
            h == buf.height
            bpr == buf.bytes_per_row
            bpp == bpr \div w
            done == {p \in (0..(w - 1)) \X (0..(h - 1)) :
                        p[2] < y \/ (p[2] = y /\ p[1] < x)}
        IN  w > 0 =>
              /\ \A p \in done :
                    /\ p[2] * bpr + p[1] * bpp < h * bpr
                    /\ mask[p[2] * w + p[1] + 1] =
                          (IF buf.data[p[2] * bpr + p[1] * bpp + 1] > 0 THEN 255 ELSE 0)
              /\ reads = {p[2] * bpr + p[1] * bpp : p \in done}
              /\ pc = "unlock" => done = (0..(w - 1)) \X (0..(h - 1))

C4_Witness ==
    /\ pc = "unlock"
    /\ buf.width = 2 /\ buf.height = 2 /\ buf.bytes_per_row = 3
    /\ buf.data = <<0, 200, 200, 200, 0, 200>>
    /\ mask = <<0, 255, 255, 0>>
    /\ reads = {0, 1, 3, 4}

\* the layout read after a successful lock of a phase that then failed
FailedAfterLock == pc = "done" /\ locks = 1 /\ mask_dims = <<>>
DegenerateLayout == buf.width = 0 \/ buf.bytes_per_row \div buf.width = 0

\* C5 as stated: a buffer with width == 0 or bytesPerRow/width == 0 fails with
\* the invalid-layout error and no sample has been read.
C5_Original ==
    (FailedAfterLock /\ DegenerateLayout) =>
        (result.err = "Invalid mask buffer stride" /\ reads = {})

\* C5 amended: sampling never starts on a degenerate layout; a degenerate layout
\* fails with no sample read, with the invalid-layout error when the base address is
\* non-null and with the read error of the null check that runs first otherwise.
C5_DegenerateLayoutFails ==
    /\ pc \in Extracting => ~DegenerateLayout
    /\ (FailedAfterLock /\ DegenerateLayout) =>
          /\ ~result.ok
          /\ reads = {}
          /\ result.err = (IF buf.base_null THEN "Failed to read mask buffer"
                                            ELSE "Invalid mask buffer stride")

C5_Witness ==
    /\ FailedAfterLock
    /\ buf.width = 2 /\ buf.bytes_per_row = 0 /\ buf.height = 1
    /\ ~buf.base_null
    /\ result.err = "Invalid mask buffer stride"
    /\ reads = {}

\* C6: the probe returns only dimensions with width > 0 and height > 0.
C6_ProbePositive ==
    probe_result = "ok" => (target[1] > 0 /\ target[2] > 0)

\* C7: when the probe fails the call returns the decode error and segmentation
\* is never invoked: no request, no lock call.
C7_ProbeFailureStops ==
    probe_result = "err" =>
        /\ pc = "done"
        /\ ~result.ok
        /\ result.err = "Failed to decode image"
        /\ ~seg_invoked
        /\ lock_calls = 0
        /\ reads = {}

C7_Witness ==
    /\ probe_result = "err"
    /\ pc = "done"
    /\ result.detail = "Failed to create image source"

\* the alpha bytes of a raster
Alphas(raster) == {raster[k] : k \in {k \in 1..Len(raster) : k % 4 = 0}}

\* C8 as stated: every element of the resampled mask and every alpha byte of
\* the output raster is 0 or 255, also when the mask is resampled.
C8_Original ==
    /\ \A i \in 1..Len(scaled_mask) : IsBinary(scaled_mask[i])
    /\ \A a \in Alphas(rgba) : IsBinary(a)

\* C8 amended: every element of the resampled mask and every alpha byte is in
\* 0..255, and is 0 or 255 whenever the mask was not resized.
C8_AlphaRange ==
    /\ \A i \in 1..Len(scaled_mask) :
          /\ scaled_mask[i] \in 0..255
          /\ ~resized => IsBinary(scaled_mask[i])
    /\ \A a \in Alphas(rgba) \cup Alphas(result.png.data) :
          /\ a \in 0..255
          /\ ~resized => IsBinary(a)

C8_Witness ==
    /\ pc = "done"
    /\ result.ok
    /\ resized
    /\ mask = <<0, 255>>
    /\ target = <<3, 1>>
    /\ Alphas(result.png.data) = {0, 128, 255}

\* C9: a successful call returns the probed dimensions, the resampled mask has
\* width * height elements and the encoded raster has those dimensions, whatever
\* the dimensions of the mask.
C9_OutputDims ==
    (pc = "done" /\ result.ok) =>
        /\ probe_result = "ok"
        /\ result.width = target[1]
        /\ result.height = target[2]
        /\ Len(scaled_mask) = target[1] * target[2]
        /\ result.png.width = target[1]
        /\ result.png.height = target[2]
        /\ Len(result.png.data) = 4 * target[1] * target[2]

C9_Witness ==
    /\ pc = "done"
    /\ result.ok
    /\ mask_dims = <<2, 2>>
    /\ target = <<3, 1>>
    /\ result.width = 3 /\ result.height = 1

\* C10: when the mask has the target dimensions the resampled mask is the mask,
\* element for element, and resize is not called.
C10_SameDimsIdentity ==
    (pc \in AfterResample /\ mask_dims # <<>> /\ mask_dims = target) =>
        (scaled_mask = mask /\ ~resized)

C10_Witness ==
    /\ pc = "composite"
    /\ mask_dims = <<2, 2>>
    /\ target = <<2, 2>>
    /\ mask = <<0, 255, 255, 0>>
    /\ scaled_mask = mask
\* the stages of RemoveBackground in their order
StageOrder == <<"probe", "segmentation", "extraction", "resampling", "compositing",
                "encoding">>
IsPrefix(a, b) == Len(a) <= Len(b) /\ \A k \in 1..Len(a) : a[k] = b[k]
LastStage == IF stages = <<>> THEN "none" ELSE stages[Len(stages)]
ResampleDone == Len(stages) >= 4 /\ pc # "resample"
CompositeDone == Len(stages) >= 5 /\ pc # "composite"

\* C11: the compositor produces 4 * width * height bytes; bytes 4i..4i+2 of pixel i
\* are 255, 255, 255 and byte 4i+3 is ResampledMask[i].
C11_CompositeLayout ==
    CompositeDone =>
        /\ Len(scaled_mask) = target[1] * target[2]
        /\ Len(rgba) = 4 * target[1] * target[2]
        /\ \A i \in 1..Len(scaled_mask) :
              /\ rgba[4 * i - 3] = 255
              /\ rgba[4 * i - 2] = 255
              /\ rgba[4 * i - 1] = 255
              /\ rgba[4 * i] = scaled_mask[i]

C11_Witness ==
    /\ pc = "encode"
    /\ scaled_mask = <<0, 128, 255>>
    /\ rgba = <<255, 255, 255, 0, 255, 255, 255, 128, 255, 255, 255, 255>>

\* the four corner elements of a row-major w x h array
Corners(m, w, h) == <<m[1], m[w], m[(h - 1) * w + 1], m[w * h]>>
NonEmptyDims(d) == d[1] > 0 /\ d[2] > 0

\* C12 as stated: for any scale factor the four corners of the resampled mask
\* equal the four corners of the normalized mask.
C12_Original ==
    (ResampleDone /\ NonEmptyDims(mask_dims) /\ NonEmptyDims(target)) =>
        Corners(scaled_mask, target[1], target[2]) =
            Corners(mask, mask_dims[1], mask_dims[2])

\* C12 amended: the corners are equal when neither axis is scaled down.
C12_CornersWhenNotDownscaled ==
    (/\ ResampleDone
     /\ NonEmptyDims(mask_dims)
     /\ NonEmptyDims(target)
     /\ target[1] >= mask_dims[1]
     /\ target[2] >= mask_dims[2]) =>
        Corners(scaled_mask, target[1], target[2]) =
            Corners(mask, mask_dims[1], mask_dims[2])

C12_Witness ==
    /\ pc = "composite"
    /\ resized
    /\ mask_dims = <<2, 2>>
    /\ target = <<3, 3>>
    /\ mask = <<255, 0, 0, 255>>
    /\ Corners(scaled_mask, 3, 3) = <<255, 0, 0, 255>>

C14_NoSubject ==
    vision = "no_results" =>
        /\ pc = "done"
        /\ ~result.ok
        /\ result.err = "no_subject_detected"
        /\ result.detail = ""
        /\ result.png = NoPng
        /\ rgba = <<>>
        /\ ~lock_held
        /\ lock_calls = 0

C14_Witness ==
    /\ vision = "no_results"
    /\ pc = "done"
    /\ result.err = "no_subject_detected"

\* the stage that returns each error message
FailedStage(msg) ==
    CASE msg \in {"unsupported_platform", "Failed to decode image bytes"} -> "none"
      [] msg = "Failed to decode image" -> "probe"
      [] msg \in {"Failed to create NSData", "Failed to create Vision request",
                  "Failed to create Vision handler", "Vision request failed",
                  "localizedDescription", "no_subject_detected",
                  "Failed to access mask pixels"} -> "segmentation"
      [] msg \in {"Failed to lock mask buffer", "Failed to read mask buffer",
                  "Invalid mask buffer stride"} -> "extraction"
      [] msg = "Failed to create mask image" -> "resampling"
      [] msg \in {"Failed to build mask PNG", "Failed to encode mask PNG"} -> "encoding"
      [] OTHER -> "unknown"

\* C15: every stage fails fast: after a failure no later stage runs, no stage is
\* retried, and the call returns only an error, with no bytes or dimensions.
C15_FailFast ==
    (pc = "done" /\ ~result.ok) =>
        /\ result.err # ""
        /\ result.png = NoPng /\ result.width = 0 /\ result.height = 0
        /\ result.revision = 0
        /\ IsPrefix(stages, StageOrder)
        /\ FailedStage(result.err) = LastStage
        /\ Len(stages) < 1 => probe_result = "none"
        /\ Len(stages) < 2 => (~seg_invoked /\ vision = "none")
        /\ Len(stages) < 3 => (lock_calls = 0 /\ reads = {} /\ mask = <<>>)
        /\ Len(stages) < 4 => (scaled_mask = <<>> /\ ~resized)
        /\ Len(stages) < 5 => rgba = <<>>

C15_Witness ==
    /\ pc = "done"
    /\ ~result.ok
    /\ result.err = "Invalid mask buffer stride"
    /\ stages = <<"probe", "segmentation", "extraction">>
    /\ rgba = <<>>

\* the taxonomy kinds of spec section 7
Taxonomy == {"DecodeError", "NoSubjectDetected", "ServiceUnavailable",
             "InvalidBufferLayout", "EncodeError"}

\* the taxonomy kind of each error message, "none" for a message the taxonomy
\* does not describe
ErrorKind(msg) ==
    CASE msg \in {"Failed to decode image bytes", "Failed to decode image"} -> "DecodeError"
      [] msg = "no_subject_detected" -> "NoSubjectDetected"
      [] msg \in {"Failed to create NSData", "Failed to create Vision request",
                  "Failed to create Vision handler", "Vision request failed",
                  "localizedDescription", "Failed to access mask pixels",
                  "Failed to lock mask buffer", "Failed to read mask buffer"}
            -> "ServiceUnavailable"
      [] msg = "Invalid mask buffer stride" -> "InvalidBufferLayout"
      [] msg \in {"Failed to build mask PNG", "Failed to encode mask PNG"} -> "EncodeError"
      [] OTHER -> "none"

\* the kinds a failure of each stage may carry
StageKinds(stage) ==
    CASE stage \in {"none", "probe"} -> {"DecodeError"}
      [] stage = "segmentation" -> {"NoSubjectDetected", "ServiceUnavailable"}
      [] stage = "extraction" -> {"ServiceUnavailable", "InvalidBufferLayout"}
      [] stage = "encoding" -> {"EncodeError"}
      [] OTHER -> {}

C17_StageOrder ==
    /\ IsPrefix(stages, StageOrder)
    /\ pc \in {"start", "probe"} => stages = <<>>
    /\ pc = "segment" => Len(stages) = 1
    /\ pc = "lock" => Len(stages) = 2
    /\ pc \in {"layout", "extract", "unlock", "resample"} => Len(stages) = 3
    /\ pc = "composite" => Len(stages) = 4
    /\ pc = "encode" => Len(stages) = 5
    /\ Len(stages) >= 2 => probe_result = "ok"
    /\ Len(stages) >= 3 => vision = "ok"
    /\ Len(stages) >= 4 => (mask_dims # <<>> /\ unlocks = 1 /\ ~lock_held)
    /\ Len(stages) >= 5 => Len(scaled_mask) = target[1] * target[2]
    /\ Len(stages) >= 6 => Len(rgba) = 4 * Len(scaled_mask)

C17_Witness ==
    /\ pc = "done"
    /\ result.ok
    /\ stages = StageOrder

MaxRasterLen == 9

\* 2^30: a u32 product of 4 wraps at 2^32, i.e. its quarter wraps at 2^30
U32Quarter == 1073741824

\* widths and heights tried: 32768 * 32768 * 4 = 2^32 is the smallest overflow
EncDims == {0, 1, 2, 32768}
RasterLens == 0 .. MaxRasterLen

\* main.rs:352, args.width * args.height * 4 leaves the range of u32
MulOverflows(width, height) == width * height >= U32Quarter

\* main.rs:352, expected_len: the product in wrapping u32 arithmetic, then `as usize`
expected_len(width, height) == 4 * ((width * height) % U32Quarter)

\* the raster holds exactly width * height * 4 bytes, in unbounded integers
ExactLen(width, height, len) == len % 4 = 0 /\ len \div 4 = width * height

\* main.rs:362, ImageBuffer::from_raw: Some iff the raster holds the
\* width * height * 4 bytes, counted in usize with checked multiplication
EncFromRaw(width, height, len) == width * height <= len \div 4

\* main.rs:353, rgba_bytes.len() != expected_len
LengthDiffers(len, expected) == len # expected

EncErr(msg) == [kind |-> "err", err |-> msg, png |-> NoPng]

\* a call of encode_png: its arguments, and whether the build checks overflow
\* (debug profile) or wraps (release profile)
InitEncode ==
    /\ PipelineInit
    /\ UrlIdle /\ FigmaIdle /\ FnIdle /\ DraftIdle /\ QueueIdle
    /\ enc_pc = "decode"
    /\ enc_args \in [width : EncDims, height : EncDims, overflow_checks : BOOLEAN]
    /\ enc_len = 0
    /\ enc_result = NoEncResult

\* main.rs:348-350, the base64 text does not decode
EncDecodeFail ==
    /\ enc_pc = "decode"
    /\ enc_result' = EncErr("Failed to decode base64")
    /\ enc_pc' = "done"
    /\ UNCHANGED <<enc_args, enc_len>>
    /\ UNCHANGED vars_except_encode

\* main.rs:348-350, the base64 text decodes to a raster of some length
EncDecodeOk ==
    /\ enc_pc = "decode"
    /\ \E len \in RasterLens : enc_len' = len
    /\ enc_pc' = "length"
    /\ UNCHANGED <<enc_args, enc_result>>
    /\ UNCHANGED vars_except_encode

\* main.rs:352, the u32 product overflows in a build with overflow checks: panic
EncLengthPanic ==
    /\ enc_pc = "length"
    /\ enc_args.overflow_checks
    /\ MulOverflows(enc_args.width, enc_args.height)
    /\ enc_result' = [kind |-> "panic", err |-> "attempt to multiply with overflow",
                      png |-> NoPng]
    /\ enc_pc' = "done"
    /\ UNCHANGED <<enc_args, enc_len>>
    /\ UNCHANGED vars_except_encode

\* main.rs:353-359, the length test fails
EncLengthMismatch ==
    /\ enc_pc = "length"
    /\ ~(enc_args.overflow_checks /\ MulOverflows(enc_args.width, enc_args.height))
    /\ LengthDiffers(enc_len, expected_len(enc_args.width, enc_args.height))
    /\ enc_result' = EncErr("Invalid RGBA data length")
    /\ enc_pc' = "done"
    /\ UNCHANGED <<enc_args, enc_len>>
    /\ UNCHANGED vars_except_encode

\* main.rs:353, the length test passes
EncLengthOk ==
    /\ enc_pc = "length"
    /\ ~(enc_args.overflow_checks /\ MulOverflows(enc_args.width, enc_args.height))
    /\ ~LengthDiffers(enc_len, expected_len(enc_args.width, enc_args.height))
    /\ enc_pc' = "from_raw"
    /\ UNCHANGED <<enc_args, enc_len, enc_result>>
    /\ UNCHANGED vars_except_encode

\* main.rs:362-363, from_raw returns None
EncFromRawFail ==
    /\ enc_pc = "from_raw"
    /\ ~EncFromRaw(enc_args.width, enc_args.height, enc_len)
    /\ enc_result' = EncErr("Failed to create image buffer")
    /\ enc_pc' = "done"
    /\ UNCHANGED <<enc_args, enc_len>>
    /\ UNCHANGED vars_except_encode

\* main.rs:362-363, from_raw returns the image buffer
EncFromRawOk ==
    /\ enc_pc = "from_raw"
    /\ EncFromRaw(enc_args.width, enc_args.height, enc_len)
    /\ enc_pc' = "write"
    /\ UNCHANGED <<enc_args, enc_len, enc_result>>
    /\ UNCHANGED vars_except_encode

\* main.rs:365-368, the PNG writer refuses the image (a zero width or height)
EncWriteFail ==
    /\ enc_pc = "write"
    /\ ~PngEncodable(enc_args.width, enc_args.height)
    /\ enc_result' = EncErr("Failed to encode PNG")
    /\ enc_pc' = "done"
    /\ UNCHANGED <<enc_args, enc_len>>
    /\ UNCHANGED vars_except_encode

\* main.rs:365-370, the PNG is written and returned as base64 text
EncWriteOk ==
    /\ enc_pc = "write"
    /\ PngEncodable(enc_args.width, enc_args.height)
    /\ enc_result' = [kind |-> "ok", err |-> "",
                      png |-> [width |-> enc_args.width, height |-> enc_args.height,
                               data |-> [i \in 1 .. enc_len |-> 0]]]
    /\ enc_pc' = "done"
    /\ UNCHANGED <<enc_args, enc_len>>
    /\ UNCHANGED vars_except_encode

NextEncode ==
    \/ EncDecodeFail
    \/ EncDecodeOk
    \/ EncLengthPanic
    \/ EncLengthMismatch
    \/ EncLengthOk
    \/ EncFromRawFail
    \/ EncFromRawOk
    \/ EncWriteFail
    \/ EncWriteOk

SpecEncode == InitEncode /\ [][NextEncode]_vars

\* encode_png has returned or unwound after decoding a raster
EncDecoded == enc_pc = "done" /\ enc_result.err # "Failed to decode base64"

\* C19: for every raster, width and height, encode_png returns an error and
\* no bytes when the raster's length differs from the exact width * height * 4,
\* and returns a PNG only when they are equal, also when the product does not
\* fit in 32 bits
C19_LengthChecked ==
    EncDecoded =>
        /\ ~ExactLen(enc_args.width, enc_args.height, enc_len) =>
               enc_result.kind = "err" /\ enc_result.png = NoPng
        /\ enc_result.kind = "ok" =>
               ExactLen(enc_args.width, enc_args.height, enc_len)

\* what remains true of encode_png in every build: no PNG comes out of a raster
\* whose length is not the exact product, and without overflow checks the call
\* returns an error for it
EncNoBytesOnWrongLength ==
    (EncDecoded /\ ~ExactLen(enc_args.width, enc_args.height, enc_len)) =>
        /\ enc_result.png = NoPng
        /\ enc_result.kind \in {"err", "panic"}
        /\ enc_result.kind = "panic" =>
               enc_args.overflow_checks /\ MulOverflows(enc_args.width, enc_args.height)

\* the wrapped product equals the raster's length although the exact one does not
EncWrappedLengthAccepted ==
    /\ enc_pc = "done"
    /\ MulOverflows(enc_args.width, enc_args.height)
    /\ enc_result.err = "Failed to create image buffer"

\* ----------------------------------------------- unsplash.rs: URL validation
UNSPLASH_API_HOST == "api.unsplash.com"
UNSPLASH_IMAGE_HOST == "images.unsplash.com"

\* Url::host_str() of a URL without a host
NoHost == ""

\* the URL texts tried, by their parts: scheme (empty: the text has none),
\* userinfo before an @, host (empty: none), port (empty: none)
RawSchemes == {"https", "HTTPS", "http", "ftp", "data", ""}
RawHosts == {"api.unsplash.com", "API.UNSPLASH.COM", "images.unsplash.com",
             "Images.Unsplash.com", "evil.example", "api.unsplash.com.evil.example",
             "api.unsplash.com.", ""}
RawUserinfos == {"", "api.unsplash.com"}
RawPorts == {"", "443", "8443"}
RawUrls == [scheme : RawSchemes, userinfo : RawUserinfos, host : RawHosts, port : RawPorts]

Commands == {"track_download", "fetch_image"}

\* ASCII lower-casing, as Url::parse applies it to the scheme and to the host
Lower(text) ==
    CASE text = "HTTPS" -> "https"
      [] text = "API.UNSPLASH.COM" -> "api.unsplash.com"
      [] text = "Images.Unsplash.com" -> "images.unsplash.com"
      [] OTHER -> text

\* the schemes the URL standard calls special: they require a host
SpecialSchemes == {"https", "http", "ftp"}

\* the port a scheme implies, which Url::parse drops from the URL
DefaultPort(scheme) ==
    CASE scheme = "https" -> "443"
      [] scheme = "http" -> "80"
      [] scheme = "ftp" -> "21"
      [] OTHER -> ""

\* unsplash.rs:71, Url::parse(raw): the scheme and the host are lower-cased, a
\* default port is dropped, the userinfo is kept apart from the host; a text
\* without a scheme, or a special scheme without a host, does not parse
UrlParse(raw) ==
    LET scheme == Lower(raw.scheme)
    IN  IF raw.scheme = ""
        THEN [ok |-> FALSE, url |-> NoUrl, err |-> "relative URL without a base"]
        ELSE IF scheme \in SpecialSchemes /\ raw.host = ""
        THEN [ok |-> FALSE, url |-> NoUrl, err |-> "empty host"]
        ELSE [ok |-> TRUE,
              url |-> [scheme |-> scheme,
                       userinfo |-> raw.userinfo,
                       host |-> Lower(raw.host),
                       port |-> IF raw.port = DefaultPort(scheme) THEN "" ELSE raw.port],
              err |-> ""]

\* unsplash.rs:79 accepting every unsplash host for every command
HostAllowedAnyUnsplash(host, allowed_host) ==
    host \in {UNSPLASH_API_HOST, UNSPLASH_IMAGE_HOST}

\* unsplash.rs:79, host != allowed_host negated
HostAllowed(host, allowed_host) == host = allowed_host

UrlErr(code, detail) == [kind |-> "err", err |-> code, detail |-> detail]

\* unsplash.rs:70-84
parse_and_validate_https_url(raw, allowed_host) ==
    LET parsed == UrlParse(raw)
    IN  IF ~parsed.ok
        THEN [ok |-> FALSE, url |-> NoUrl,
              err |-> UrlErr("unsplash_invalid_url", parsed.err)]
        ELSE IF parsed.url.scheme # "https"
        THEN [ok |-> FALSE, url |-> NoUrl,
              err |-> UrlErr("unsplash_invalid_url", "only https URLs are allowed")]
        ELSE IF parsed.url.host = NoHost
        THEN [ok |-> FALSE, url |-> NoUrl,
              err |-> UrlErr("unsplash_invalid_url", "missing host")]
        ELSE IF ~HostAllowed(parsed.url.host, allowed_host)
        THEN [ok |-> FALSE, url |-> NoUrl,
              err |-> UrlErr("unsplash_invalid_url", "host is not allowed")]
        ELSE [ok |-> TRUE, url |-> parsed.url, err |-> NoUrlResult]

\* unsplash.rs:240 and 268, the host each command allows
AllowedHost(cmd) ==
    IF cmd = "track_download" THEN UNSPLASH_API_HOST ELSE UNSPLASH_IMAGE_HOST

\* unsplash.rs:113-120, the categories of a response whose status is no success
HttpErrorCategories ==
    {"unsplash_auth_failed", "unsplash_forbidden", "unsplash_not_found",
     "unsplash_rate_limited", "unsplash_server_error", "unsplash_request_failed"}

\* unsplash.rs:290-295, failures of unsplash_fetch_image after a successful status
BodyErrors == {"unsplash_response_read_failed", "unsplash_decode_failed"}

\* a call of unsplash_track_download or unsplash_fetch_image with some URL text
InitUrl ==
    /\ PipelineInit
    /\ EncodeIdle /\ FigmaIdle /\ FnIdle /\ DraftIdle /\ QueueIdle
    /\ url_pc = "validate"
    /\ url_cmd \in Commands
    /\ url_raw \in RawUrls
    /\ url_parsed = NoUrl
    /\ url_requests = <<>>
    /\ url_result = NoUrlResult

\* unsplash.rs:240 and 268, parse_and_validate_https_url(..)? returns the error
UrlValidateFail ==
    /\ url_pc = "validate"
    /\ LET v == parse_and_validate_https_url(url_raw, AllowedHost(url_cmd))
       IN  /\ ~v.ok
           /\ url_result' = v.err
    /\ url_pc' = "done"
    /\ UNCHANGED <<url_cmd, url_raw, url_parsed, url_requests>>
    /\ UNCHANGED vars_except_url

\* unsplash.rs:240 and 268, the URL is accepted
UrlValidateOk ==
    /\ url_pc = "validate"
    /\ LET v == parse_and_validate_https_url(url_raw, AllowedHost(url_cmd))
       IN  /\ v.ok
           /\ url_parsed' = v.url
    /\ url_pc' = IF url_cmd = "track_download" THEN "access_key" ELSE "client"
    /\ UNCHANGED <<url_cmd, url_raw, url_requests, url_result>>
    /\ UNCHANGED vars_except_url

\* unsplash.rs:242, require_access_key()? fails
UrlAccessKeyFail ==
    /\ url_pc = "access_key"
    /\ url_result' = UrlErr("unsplash_missing_access_key", "set UNSPLASH_ACCESS_KEY")
    /\ url_pc' = "done"
    /\ UNCHANGED <<url_cmd, url_raw, url_parsed, url_requests>>
    /\ UNCHANGED vars_except_url

\* unsplash.rs:242, the access key is set
UrlAccessKeyOk ==
    /\ url_pc = "access_key"
    /\ url_pc' = "client"
    /\ UNCHANGED <<url_cmd, url_raw, url_parsed, url_requests, url_result>>
    /\ UNCHANGED vars_except_url

\* unsplash.rs:243 and 269, build_client()? fails
UrlClientFail ==
    /\ url_pc = "client"
    /\ url_result' = UrlErr("unsplash_client_init_failed", "")
    /\ url_pc' = "done"
    /\ UNCHANGED <<url_cmd, url_raw, url_parsed, url_requests>>
    /\ UNCHANGED vars_except_url

\* unsplash.rs:243 and 269, the client is built
UrlClientOk ==
    /\ url_pc = "client"
    /\ url_pc' = "send"
    /\ UNCHANGED <<url_cmd, url_raw, url_parsed, url_requests, url_result>>
    /\ UNCHANGED vars_except_url

\* unsplash.rs:245-248 and 271-275, the request is sent and fails in transport
UrlSendFail ==
    /\ url_pc = "send"
    /\ url_requests' = Append(url_requests, url_parsed)
    /\ url_result' = UrlErr("unsplash_request_failed", "")
    /\ url_pc' = "done"
    /\ UNCHANGED <<url_cmd, url_raw, url_parsed>>
    /\ UNCHANGED vars_except_url

\* unsplash.rs:245-248 and 271-275, the request is sent and a response arrives
UrlSendOk ==
    /\ url_pc = "send"
    /\ url_requests' = Append(url_requests, url_parsed)
    /\ url_pc' = "response"
    /\ UNCHANGED <<url_cmd, url_raw, url_parsed, url_result>>
    /\ UNCHANGED vars_except_url

\* unsplash.rs:250-254 and 276-280, the status is no success
UrlHttpError ==
    /\ url_pc = "response"
    /\ \E category \in HttpErrorCategories : url_result' = UrlErr(category, "status")
    /\ url_pc' = "done"
    /\ UNCHANGED <<url_cmd, url_raw, url_parsed, url_requests>>
    /\ UNCHANGED vars_except_url

\* unsplash.rs:290-295, the image body cannot be read or decoded
UrlBodyError ==
    /\ url_pc = "response"
    /\ url_cmd = "fetch_image"
    /\ \E code \in BodyErrors : url_result' = UrlErr(code, "")
    /\ url_pc' = "done"
    /\ UNCHANGED <<url_cmd, url_raw, url_parsed, url_requests>>
    /\ UNCHANGED vars_except_url

\* unsplash.rs:256-261 and 298-303, the command returns Ok
UrlOk ==
    /\ url_pc = "response"
    /\ url_result' = [kind |-> "ok", err |-> "", detail |-> ""]
    /\ url_pc' = "done"
    /\ UNCHANGED <<url_cmd, url_raw, url_parsed, url_requests>>
    /\ UNCHANGED vars_except_url

NextUrl ==
    \/ UrlValidateFail
    \/ UrlValidateOk
    \/ UrlAccessKeyFail
    \/ UrlAccessKeyOk
    \/ UrlClientFail
    \/ UrlClientOk
    \/ UrlSendFail
    \/ UrlSendOk
    \/ UrlHttpError
    \/ UrlBodyError
    \/ UrlOk

SpecUrl == InitUrl /\ [][NextUrl]_vars

\* the URL text names the https scheme and the command's allowed host, in any
\* letter case
NamesAllowedHttps ==
    /\ Lower(url_raw.scheme) = "https"
    /\ Lower(url_raw.host) = AllowedHost(url_cmd)

\* parse_and_validate_https_url has returned Ok
UrlAccepted == url_parsed # NoUrl

\* C20: parse_and_validate_https_url returns Ok only for a URL whose scheme is
\* https and whose host is the command's allowed host; for every other input
\* the command returns an unsplash_invalid_url error and sends no HTTP request
C20_OnlyAllowedHttps ==
    /\ UrlAccepted =>
           /\ url_parsed.scheme = "https"
           /\ url_parsed.host = AllowedHost(url_cmd)
           /\ NamesAllowedHttps
    /\ (url_pc # "validate" /\ ~NamesAllowedHttps) =>
           /\ url_pc = "done"
           /\ url_result.kind = "err"
           /\ url_result.err = "unsplash_invalid_url"
           /\ url_requests = <<>>
    /\ \A i \in 1 .. Len(url_requests) :
           /\ url_requests[i].scheme = "https"
           /\ url_requests[i].host = AllowedHost(url_cmd)

\* an https URL that names the allowed host only in its userinfo was refused
\* and nothing was sent
C20_Witness ==
    /\ url_pc = "done"
    /\ url_raw.scheme = "https"
    /\ url_raw.userinfo = "api.unsplash.com"
    /\ url_raw.host = "evil.example"
    /\ url_result.err = "unsplash_invalid_url"
    /\ url_requests = <<>>

\* an https URL for the allowed host was accepted and requested
UrlRequested ==
    /\ url_pc = "done"
    /\ UrlAccepted
    /\ Len(url_requests) = 1

\* -------------------------------------------------------------------- text
\* a String is the sequence of its chars
MaxKeyLen == 2

\* char::is_whitespace over the chars used here
Whitespace == {" "}

\* char::is_ascii_alphanumeric over the chars used here
AsciiAlphanumeric == {"a", "Z", "7", "1", "2"}

\* every char sequence of at most n chars
Strings(chars, n) == UNION {[1 .. k -> chars] : k \in 0 .. n}

RECURSIVE TrimStart(_)
\* str::trim_start
TrimStart(text) ==
    IF text # <<>> /\ Head(text) \in Whitespace THEN TrimStart(Tail(text)) ELSE text

RECURSIVE TrimEnd(_)
\* str::trim_end
TrimEnd(text) ==
    IF text # <<>> /\ text[Len(text)] \in Whitespace
    THEN TrimEnd(SubSeq(text, 1, Len(text) - 1))
    ELSE text

\* str::trim
Trim(text) == TrimEnd(TrimStart(text))

\* chars().all(..) for a set of accepted chars
AllCharsIn(text, chars) == \A i \in 1 .. Len(text) : text[i] \in chars

\* Result<T, String>
FnOk(value) == [ok |-> TRUE, value |-> value, err |-> "", detail |-> ""]
FnErr(code, detail) == [ok |-> FALSE, value |-> <<>>, err |-> code, detail |-> detail]

\* ----------------------------------------------------- figma.rs: validation
\* figma.rs:54 with ':' accepted as well, as line 78 does for node ids
FileKeyCharsOfNodeIds == AsciiAlphanumeric \cup {"_", "-", ":"}

\* figma.rs:54, ch.is_ascii_alphanumeric() || ch == '_' || ch == '-'
FileKeyChars == AsciiAlphanumeric \cup {"_", "-"}

\* figma.rs:78 without the ':' that node ids contain
NodeIdCharsOfFileKey == AsciiAlphanumeric \cup {"-", "_"}

\* figma.rs:78, ch.is_ascii_alphanumeric() || ch == ':' || ch == '-' || ch == '_'
NodeIdChars == AsciiAlphanumeric \cup {":", "-", "_"}

\* figma.rs:47-59
validate_file_key(file_key) ==
    LET trimmed == Trim(file_key)
    IN  IF trimmed = <<>>
        THEN FnErr("figma_invalid_params", "fileKey is required")
        ELSE IF ~AllCharsIn(trimmed, FileKeyChars)
        THEN FnErr("figma_invalid_params", "fileKey is invalid")
        ELSE FnOk(trimmed)

\* figma.rs:61-67
validate_token(token) ==
    LET trimmed == Trim(token)
    IN  IF trimmed = <<>>
        THEN FnErr("figma_invalid_params", "token is required")
        ELSE FnOk(trimmed)

RECURSIVE NormalizeFrom(_, _, _)
\* figma.rs:71-83, the loop from the i-th id on, with `normalized` so far
NormalizeFrom(node_ids, i, normalized) ==
    IF i > Len(node_ids)
    THEN FnOk(normalized)
    ELSE LET trimmed == Trim(node_ids[i])
         IN  IF trimmed = <<>>
             THEN NormalizeFrom(node_ids, i + 1, normalized)
             ELSE IF ~AllCharsIn(trimmed, NodeIdChars)
             THEN FnErr("figma_invalid_params", "nodeIds contains an invalid id")
             ELSE NormalizeFrom(node_ids, i + 1, Append(normalized, trimmed))

\* figma.rs:69-85
normalize_node_ids(node_ids) == NormalizeFrom(node_ids, 1, <<>>)

\* raw.trim().to_lowercase() over the option texts used here
TrimLower(text) ==
    CASE text = " Paths " -> "paths"
      [] text = " JPG " -> "jpg"
      [] text = " " -> ""
      [] OTHER -> text

\* figma.rs:87-102; "None" is Option::None
validate_geometry(geometry) ==
    IF geometry = "None"
    THEN FnOk("None")
    ELSE LET normalized == TrimLower(geometry)
         IN  IF normalized = ""
             THEN FnOk("None")
             ELSE IF normalized = "paths"
             THEN FnOk(normalized)
             ELSE FnErr("figma_invalid_params", "geometry must be paths")

\* figma.rs:230-238, the image format; "None" is Option::None
ValidateFormat(format) ==
    LET normalized == IF format = "None" \/ TrimLower(format) = ""
                      THEN "png" ELSE TrimLower(format)
    IN  IF normalized \notin {"png", "jpg", "svg", "pdf"}
        THEN FnErr("figma_invalid_params", "format must be png, jpg, svg, or pdf")
        ELSE FnOk(normalized)

\* ------------------------------------------------ HTTP error formatters
\* the chars of the body kept in a message
BodyExcerptMax == 180

\* StatusCode::is_success
IsSuccess(status) == status >= 200 /\ status <= 299

\* figma.rs:138-145 without the 429 arm
FigmaCategoryNoRateLimit(status) ==
    CASE status = 401 -> "figma_auth_failed"
      [] status = 403 -> "figma_forbidden"
      [] status = 404 -> "figma_not_found"
      [] status >= 500 /\ status <= 599 -> "figma_server_error"
      [] OTHER -> "figma_request_failed"

\* figma.rs:138-145
FigmaCategory(status) ==
    CASE status = 401 -> "figma_auth_failed"
      [] status = 403 -> "figma_forbidden"
      [] status = 404 -> "figma_not_found"
      [] status = 429 -> "figma_rate_limited"
      [] status >= 500 /\ status <= 599 -> "figma_server_error"
      [] OTHER -> "figma_request_failed"

\* figma.rs:137-153, the message "{category}: status {status} - {excerpt}"
format_error(status, body) ==
    LET compact == Trim(body)
    IN  [category |-> FigmaCategory(status),
         status |-> status,
         excerpt |-> SubSeq(compact, 1, Min(BodyExcerptMax, Len(compact))),
         suffix |-> ""]

\* unsplash.rs:113-120
UnsplashCategory(status) ==
    CASE status = 401 -> "unsplash_auth_failed"
      [] status = 403 -> "unsplash_forbidden"
      [] status = 404 -> "unsplash_not_found"
      [] status = 429 -> "unsplash_rate_limited"
      [] status >= 500 /\ status <= 599 -> "unsplash_server_error"
      [] OTHER -> "unsplash_request_failed"

\* unsplash.rs:130-150, as the kept chars and the "..." appended to them
truncate(value, max_chars) ==
    LET trimmed == Trim(value)
    IN  IF trimmed = <<>>
        THEN [text |-> <<>>, suffix |-> ""]
        ELSE IF Len(trimmed) <= max_chars
        THEN [text |-> trimmed, suffix |-> ""]
        ELSE [text |-> SubSeq(trimmed, 1, max_chars), suffix |-> "..."]

\* unsplash.rs:112-128
format_unsplash_http_error(status, body) ==
    LET compact_body == truncate(body, BodyExcerptMax)
    IN  [category |-> UnsplashCategory(status),
         status |-> status,
         excerpt |-> compact_body.text,
         suffix |-> compact_body.suffix]

\* ------------------------------------------------ figma.rs: the commands
FigCommands == {"fetch_file", "fetch_nodes", "fetch_images", "fetch_local_variables"}

\* chars of the file keys tried
KeyChars == {"a", "7", "_", "-", ":", " ", "é"}
FileKeyTexts == Strings(KeyChars, MaxKeyLen)
TokenTexts == {<<>>, <<" ">>, <<" ", "a">>}
GeometryArgs == {"None", " Paths ", " ", "lines"}
FormatArgs == {"None", " JPG ", "gif"}
NodeIdArgs == {<<>>, << <<"1", ":", "2">>, <<" ">> >>, << <<"1", " ", "2">> >>}

\* the arguments of a command; a field the command does not have stays "None" or empty
FigArgs(cmd) ==
    [file_key : FileKeyTexts,
     token : TokenTexts,
     geometry : IF cmd \in {"fetch_file", "fetch_nodes"} THEN GeometryArgs ELSE {"None"},
     node_ids : IF cmd = "fetch_local_variables" THEN {<<>>} ELSE NodeIdArgs,
     format : IF cmd = "fetch_images" THEN FormatArgs ELSE {"None"}]

\* the statements between validate_token and build_client, in each command's order:
\* figma.rs:172-173, 198-202, 225-238
ValidateParams(cmd, args) ==
    LET ids == normalize_node_ids(args.node_ids)
        geometry == validate_geometry(args.geometry)
        format == ValidateFormat(args.format)
    IN  CASE cmd = "fetch_file" ->
                 IF ~geometry.ok THEN geometry ELSE ids
          [] cmd = "fetch_nodes" ->
                 IF ~ids.ok THEN ids
                 ELSE IF ids.value = <<>>
                 THEN FnErr("figma_invalid_params", "nodeIds is required")
                 ELSE IF ~geometry.ok THEN geometry ELSE ids
          [] cmd = "fetch_images" ->
                 IF ~ids.ok THEN ids
                 ELSE IF ids.value = <<>>
                 THEN FnErr("figma_invalid_params", "imageRefs is required")
                 ELSE IF ~format.ok THEN format ELSE ids
          [] OTHER -> FnOk(<<>>)

FigErr(code, detail) == [kind |-> "err", err |-> code, detail |-> detail, message |-> NoMessage]

\* the attempts after which a 429 response is returned as it is
MaxAttempts == 4

\* the longest sleep before a retry, in seconds
MaxRetryAfter == 8

\* the sleep when the retry-after header gives none, in seconds
DefaultRetryAfter == 1

Digits == {"0", "1", "2", "3", "4", "5", "6", "7", "8", "9"}
DigitValue(ch) ==
    CASE ch = "0" -> 0 [] ch = "1" -> 1 [] ch = "2" -> 2 [] ch = "3" -> 3 [] ch = "4" -> 4
      [] ch = "5" -> 5 [] ch = "6" -> 6 [] ch = "7" -> 7 [] ch = "8" -> 8 [] ch = "9" -> 9

\* u64::MAX = 18446744073709551615, by its decimal digits
U64MaxDigits == <<"1", "8", "4", "4", "6", "7", "4", "4", "0", "7",
                  "3", "7", "0", "9", "5", "5", "1", "6", "1", "5">>

RECURSIVE StripZeros(_)
\* a digit sequence without its leading zeros
StripZeros(digits) ==
    IF digits # <<>> /\ Head(digits) = "0" THEN StripZeros(Tail(digits)) ELSE digits

RECURSIVE DigitsLeq(_, _)
\* a <= b for digit sequences of the same length
DigitsLeq(a, b) ==
    IF a = <<>> THEN TRUE
    ELSE IF DigitValue(Head(a)) # DigitValue(Head(b))
    THEN DigitValue(Head(a)) < DigitValue(Head(b))
    ELSE DigitsLeq(Tail(a), Tail(b))

\* the number a digit sequence denotes is at most u64::MAX
FitsU64(digits) ==
    LET d == StripZeros(digits)
    IN  \/ Len(d) < Len(U64MaxDigits)
        \/ Len(d) = Len(U64MaxDigits) /\ DigitsLeq(d, U64MaxDigits)

\* min(n, cap) for the number n a digit sequence denotes, cap < 10
DigitsMin(digits, cap) ==
    LET d == StripZeros(digits)
    IN  IF d = <<>> THEN 0
        ELSE IF Len(d) > 1 THEN cap
        ELSE Min(DigitValue(d[1]), cap)

\* figma.rs:130, v.parse::<u64>(): an optional '+', then one or more decimal
\* digits of a number up to u64::MAX; digits is the number when ok
ParseU64(text) ==
    LET digits == IF text # <<>> /\ Head(text) = "+" THEN Tail(text) ELSE text
    IN  [ok |-> digits # <<>> /\ AllCharsIn(digits, Digits) /\ FitsU64(digits),
         digits |-> digits]

\* figma.rs:129, HeaderValue::to_str: only visible ASCII
ToStrOk(text) == AllCharsIn(text, Digits \cup {"+", "-", ".", "s", "o", "n", " "})

\* figma.rs:126-132, the seconds to sleep before the retry
RetryAfter(response) ==
    IF response.has_retry_after /\ ToStrOk(response.retry_after)
       /\ ParseU64(response.retry_after).ok
    THEN DigitsMin(ParseU64(response.retry_after).digits, MaxRetryAfter)
    ELSE Min(DefaultRetryAfter, MaxRetryAfter)

\* the retry-after header values tried
RetryAfterTexts ==
    {<<>>, <<"0">>, <<"3">>, <<"8">>, <<"9">>, <<"1", "2", "0">>, <<"0", "0", "7">>,
     <<"+", "5">>, <<"-", "1">>, <<"1", ".", "5">>, <<"s", "o", "o", "n">>, <<"é">>,
     U64MaxDigits,
     SubSeq(U64MaxDigits, 1, Len(U64MaxDigits) - 1) \o <<"6">>}

\* the responses tried: a retry-after header is put on 429 responses only
Responses ==
    {[status |-> st, retry_after |-> <<>>, has_retry_after |-> FALSE] :
        st \in {200, 404, 429, 503}}
    \cup {[status |-> 429, retry_after |-> text, has_retry_after |-> TRUE] :
             text \in RetryAfterTexts}

\* the response bodies tried
BodyTexts == {<<>>, <<" ", "x", " ">>}

\* a figma_fetch_* command is called with some arguments
InitFigma ==
    /\ PipelineInit
    /\ EncodeIdle /\ UrlIdle /\ FnIdle /\ DraftIdle /\ QueueIdle
    /\ fig_pc = "file_key"
    /\ fig_cmd \in FigCommands
    /\ fig_args \in FigArgs(fig_cmd)
    /\ fig_key = <<>>
    /\ fig_client = FALSE
    /\ fig_attempts = 0
    /\ fig_sent = 0
    /\ fig_response = NoResponse
    /\ fig_slept = -1
    /\ fig_result = NoFigResult

\* figma.rs:170, 196, 223, 269: validate_file_key(..)? returns the error
FigFileKeyFail ==
    /\ fig_pc = "file_key"
    /\ LET v == validate_file_key(fig_args.file_key)
       IN  /\ ~v.ok
           /\ fig_result' = FigErr(v.err, v.detail)
    /\ fig_pc' = "done"
    /\ UNCHANGED <<fig_cmd, fig_args, fig_key, fig_client, fig_attempts, fig_sent, fig_response, fig_slept>>
    /\ UNCHANGED vars_except_figma

\* figma.rs:170, 196, 223, 269: the file key is accepted
FigFileKeyOk ==
    /\ fig_pc = "file_key"
    /\ LET v == validate_file_key(fig_args.file_key)
       IN  /\ v.ok
           /\ fig_key' = v.value
    /\ fig_pc' = "token"
    /\ UNCHANGED <<fig_cmd, fig_args, fig_client, fig_attempts, fig_sent, fig_response, fig_slept, fig_result>>
    /\ UNCHANGED vars_except_figma

\* figma.rs:171, 197, 224, 270: validate_token(..)? returns the error
FigTokenFail ==
    /\ fig_pc = "token"
    /\ LET v == validate_token(fig_args.token)
       IN  /\ ~v.ok
           /\ fig_result' = FigErr(v.err, v.detail)
    /\ fig_pc' = "done"
    /\ UNCHANGED <<fig_cmd, fig_args, fig_key, fig_client, fig_attempts, fig_sent, fig_response, fig_slept>>
    /\ UNCHANGED vars_except_figma

\* figma.rs:171, 197, 224, 270: the token is accepted
FigTokenOk ==
    /\ fig_pc = "token"
    /\ validate_token(fig_args.token).ok
    /\ fig_pc' = "params"
    /\ UNCHANGED <<fig_cmd, fig_args, fig_key, fig_client, fig_attempts, fig_sent, fig_response, fig_slept, fig_result>>
    /\ UNCHANGED vars_except_figma

\* figma.rs:172-173, 198-202, 225-238: another argument is refused
FigParamsFail ==
    /\ fig_pc = "params"
    /\ LET v == ValidateParams(fig_cmd, fig_args)
       IN  /\ ~v.ok
           /\ fig_result' = FigErr(v.err, v.detail)
    /\ fig_pc' = "done"
    /\ UNCHANGED <<fig_cmd, fig_args, fig_key, fig_client, fig_attempts, fig_sent, fig_response, fig_slept>>
    /\ UNCHANGED vars_except_figma

\* figma.rs:172-173, 198-202, 225-240: the other arguments are accepted
FigParamsOk ==
    /\ fig_pc = "params"
    /\ ValidateParams(fig_cmd, fig_args).ok
    /\ fig_pc' = "client"
    /\ UNCHANGED <<fig_cmd, fig_args, fig_key, fig_client, fig_attempts, fig_sent, fig_response, fig_slept, fig_result>>
    /\ UNCHANGED vars_except_figma

\* figma.rs:175, 204, 242, 272: build_client()? fails
FigClientFail ==
    /\ fig_pc = "client"
    /\ fig_client' = TRUE
    /\ fig_result' = FigErr("figma_client_init_failed", "")
    /\ fig_pc' = "done"
    /\ UNCHANGED <<fig_cmd, fig_args, fig_key, fig_attempts, fig_sent, fig_response, fig_slept>>
    /\ UNCHANGED vars_except_figma

\* figma.rs:175-191, 204-218, 242-252, 272-276: the client is built; the URL of
\* the validated file key always parses; read_json_response is entered
FigClientOk ==
    /\ fig_pc = "client"
    /\ fig_client' = TRUE
    /\ fig_pc' = "send"
    /\ UNCHANGED <<fig_cmd, fig_args, fig_key, fig_attempts, fig_sent, fig_response, fig_slept, fig_result>>
    /\ UNCHANGED vars_except_figma

\* figma.rs:114-120, the request fails in transport: the ? returns the error
FigSendFail ==
    /\ fig_pc = "send"
    /\ fig_attempts' = fig_attempts + 1
    /\ fig_sent' = fig_sent + 1
    /\ fig_result' = FigErr("figma_request_failed", "")
    /\ fig_pc' = "done"
    /\ UNCHANGED <<fig_cmd, fig_args, fig_key, fig_client, fig_response, fig_slept>>
    /\ UNCHANGED vars_except_figma

\* figma.rs:114-120, the request is sent and a response arrives
FigSendOk ==
    /\ fig_pc = "send"
    /\ fig_attempts' = fig_attempts + 1
    /\ fig_sent' = fig_sent + 1
    /\ \E response \in Responses : fig_response' = response
    /\ fig_pc' = "received"
    /\ UNCHANGED <<fig_cmd, fig_args, fig_key, fig_client, fig_slept, fig_result>>
    /\ UNCHANGED vars_except_figma

\* figma.rs:122-124, the response is returned to read_json_response
FigReturn ==
    /\ fig_pc = "received"
    /\ fig_response.status # 429 \/ fig_attempts >= MaxAttempts
    /\ fig_pc' = "status"
    /\ UNCHANGED <<fig_cmd, fig_args, fig_key, fig_client, fig_attempts, fig_sent, fig_response, fig_slept, fig_result>>
    /\ UNCHANGED vars_except_figma

\* figma.rs:122-134 without the test of attempts
FigRetryNoLimit ==
    /\ fig_pc = "received"
    /\ fig_response.status = 429
    /\ fig_attempts < MaxAttempts + 1
    /\ fig_slept' = RetryAfter(fig_response)
    /\ fig_pc' = "send"
    /\ UNCHANGED <<fig_cmd, fig_args, fig_key, fig_client, fig_attempts, fig_sent, fig_response, fig_result>>
    /\ UNCHANGED vars_except_figma

\* figma.rs:122-134, a 429 response before the last attempt: sleep, then loop
FigRetry ==
    /\ fig_pc = "received"
    /\ ~(fig_response.status # 429 \/ fig_attempts >= MaxAttempts)
    /\ fig_slept' = RetryAfter(fig_response)
    /\ fig_pc' = "send"
    /\ UNCHANGED <<fig_cmd, fig_args, fig_key, fig_client, fig_attempts, fig_sent, fig_response, fig_result>>
    /\ UNCHANGED vars_except_figma

\* figma.rs:157-161, the status is no success
FigHttpError ==
    /\ fig_pc = "status"
    /\ ~IsSuccess(fig_response.status)
    /\ \E body \in BodyTexts :
           LET message == format_error(fig_response.status, body)
           IN  fig_result' = [kind |-> "err", err |-> message.category,
                              detail |-> "status", message |-> message]
    /\ fig_pc' = "done"
    /\ UNCHANGED <<fig_cmd, fig_args, fig_key, fig_client, fig_attempts, fig_sent, fig_response, fig_slept>>
    /\ UNCHANGED vars_except_figma

\* figma.rs:162-165 and 253-256, the body is no JSON, or has no images map
FigParseFail ==
    /\ fig_pc = "status"
    /\ IsSuccess(fig_response.status)
    /\ fig_result' = FigErr("figma_response_parse_failed", "")
    /\ fig_pc' = "done"
    /\ UNCHANGED <<fig_cmd, fig_args, fig_key, fig_client, fig_attempts, fig_sent, fig_response, fig_slept>>
    /\ UNCHANGED vars_except_figma

\* figma.rs:162-165 and 258-264, the command returns Ok
FigOk ==
    /\ fig_pc = "status"
    /\ IsSuccess(fig_response.status)
    /\ fig_result' = [kind |-> "ok", err |-> "", detail |-> "", message |-> NoMessage]
    /\ fig_pc' = "done"
    /\ UNCHANGED <<fig_cmd, fig_args, fig_key, fig_client, fig_attempts, fig_sent, fig_response, fig_slept>>
    /\ UNCHANGED vars_except_figma

NextFigma ==
    \/ FigFileKeyFail
    \/ FigFileKeyOk
    \/ FigTokenFail
    \/ FigTokenOk
    \/ FigParamsFail
    \/ FigParamsOk
    \/ FigClientFail
    \/ FigClientOk
    \/ FigSendFail
    \/ FigSendOk
    \/ FigReturn
    \/ FigRetry
    \/ FigHttpError
    \/ FigParseFail
    \/ FigOk

SpecFigma == InitFigma /\ [][NextFigma]_vars

\* send_with_rate_limit_retry is entered from read_json_response
InitRetry ==
    /\ PipelineInit
    /\ EncodeIdle /\ UrlIdle /\ FnIdle /\ DraftIdle /\ QueueIdle
    /\ fig_pc = "send"
    /\ fig_cmd \in FigCommands
    /\ fig_args = [NoFigArgs EXCEPT !.file_key = <<"a">>, !.token = <<"a">>,
                                    !.node_ids = IF fig_cmd \in {"fetch_nodes", "fetch_images"}
                                                 THEN << <<"1", ":", "2">> >> ELSE <<>>]
    /\ fig_key = <<"a">>
    /\ fig_client = TRUE
    /\ fig_attempts = 0
    /\ fig_sent = 0
    /\ fig_response = NoResponse
    /\ fig_slept = -1
    /\ fig_result = NoFigResult

NextRetry ==
    \/ FigSendFail
    \/ FigSendOk
    \/ FigReturn
    \/ FigRetry
    \/ FigHttpError
    \/ FigParseFail
    \/ FigOk

\* every request completes with a response or a transport error, and the
\* runtime keeps running the call
SpecRetry == InitRetry /\ [][NextRetry]_vars /\ WF_vars(NextRetry)

\* the chars a file key may consist of, among those tried
KeyCharsAllowed == {"a", "7", "_", "-"}

\* the file key of the arguments, trimmed, is non-empty and has allowed chars only
FileKeyGood ==
    LET trimmed == Trim(fig_args.file_key)
    IN  /\ trimmed # <<>>
        /\ \A i \in 1 .. Len(trimmed) : trimmed[i] \in KeyCharsAllowed

\* C21: validate_file_key returns Ok(trimmed key) exactly when the trimmed key
\* is non-empty and made of ASCII letters, digits, '_' and '-'; otherwise the
\* command returns figma_invalid_params, builds no client and sends no request
C21_FileKeyValidated ==
    fig_pc # "file_key" =>
        /\ FileKeyGood => fig_key = Trim(fig_args.file_key)
        /\ ~FileKeyGood =>
               /\ fig_pc = "done"
               /\ fig_key = <<>>
               /\ fig_result.kind = "err"
               /\ fig_result.err = "figma_invalid_params"
               /\ ~fig_client
               /\ fig_sent = 0

\* a file key with a ':' was refused before any client or request
C21_Witness ==
    /\ fig_pc = "done"
    /\ fig_args.file_key = <<"a", ":">>
    /\ fig_result.err = "figma_invalid_params"
    /\ ~fig_client
    /\ fig_sent = 0

\* a file key was accepted in its trimmed form
FileKeyTrimmed ==
    /\ fig_args.file_key = <<" ", "a">>
    /\ fig_key = <<"a">>

\* the header value is an unsigned integer in decimal notation
IsUnsignedInteger(text) ==
    LET digits == IF text # <<>> /\ Head(text) = "+" THEN Tail(text) ELSE text
    IN  digits # <<>> /\ \A i \in 1 .. Len(digits) : digits[i] \in Digits

\* the digits of that unsigned integer
UnsignedDigits(text) == IF text # <<>> /\ Head(text) = "+" THEN Tail(text) ELSE text

\* the wait the claim gives: min(header, 8), or 1 without an unsigned integer
ClaimedWait(response) ==
    IF response.has_retry_after /\ IsUnsignedInteger(response.retry_after)
    THEN DigitsMin(UnsignedDigits(response.retry_after), 8)
    ELSE 1

\* the wait for a header that must also fit 64 bits
U64Wait(response) ==
    IF /\ response.has_retry_after
       /\ IsUnsignedInteger(response.retry_after)
       /\ FitsU64(UnsignedDigits(response.retry_after))
    THEN DigitsMin(UnsignedDigits(response.retry_after), 8)
    ELSE 1

\* what C26 says of the requests and responses, whatever the wait
RetryRules ==
    /\ fig_sent <= 4
    /\ fig_sent = fig_attempts
    /\ fig_pc = "status" => fig_response.status # 429 \/ fig_attempts = 4
    /\ (fig_pc = "send" /\ fig_attempts > 0) =>
           fig_response.status = 429 /\ fig_attempts < 4
    /\ fig_result.kind = "err" => fig_pc = "done"

MaxIds == 2

\* the ids tried: blank, valid with and without surrounding blanks, invalid
IdTexts ==
    {<<>>, <<" ">>, <<"1", ":", "2">>, <<" ", "a", "_", " ">>, <<"-">>,
     <<"1", " ", "2">>, <<"/">>, <<"é">>}
NodeIdLists == UNION {[1 .. k -> IdTexts] : k \in 0 .. MaxIds}

\* normalize_node_ids is called with some list of ids
InitNodeIds ==
    /\ PipelineInit
    /\ EncodeIdle /\ UrlIdle /\ FigmaIdle /\ DraftIdle /\ QueueIdle
    /\ fn_pc = "call"
    /\ fn_input \in NodeIdLists
    /\ fn_output = <<>>

\* figma.rs:69-85
NormalizeNodeIds ==
    /\ fn_pc = "call"
    /\ fn_output' = normalize_node_ids(fn_input)
    /\ fn_pc' = "done"
    /\ UNCHANGED fn_input
    /\ UNCHANGED vars_except_fn

SpecNodeIds == InitNodeIds /\ [][NormalizeNodeIds]_vars

\* an id that is not blank
NonBlank(id) == Trim(id) # <<>>

\* the chars a node id may consist of, among those tried
IdCharsAllowed == {"a", "1", "2", ":", "-", "_"}

\* every non-blank id of the input has allowed chars only
NodeIdsGood ==
    \A i \in 1 .. Len(fn_input) :
        \A j \in 1 .. Len(Trim(fn_input[i])) : Trim(fn_input[i])[j] \in IdCharsAllowed

\* C22: normalize_node_ids returns the trimmed non-blank ids in input order when
\* each consists of ASCII letters, digits, ':', '-' and '_'; blank ids are
\* dropped; one other char in a non-blank id fails the call with
\* figma_invalid_params and no ids
C22_NodeIdsNormalized ==
    fn_pc = "done" =>
        LET kept == SelectSeq(fn_input, NonBlank)
        IN  /\ NodeIdsGood =>
                   /\ fn_output.ok
                   /\ fn_output.value = [i \in 1 .. Len(kept) |-> Trim(kept[i])]
            /\ ~NodeIdsGood =>
                   /\ ~fn_output.ok
                   /\ fn_output.err = "figma_invalid_params"
                   /\ fn_output.value = <<>>

\* a blank id was dropped and the other returned trimmed
C22_Witness ==
    /\ fn_pc = "done"
    /\ fn_input = << <<" ">>, <<" ", "a", "_", " ">> >>
    /\ fn_output.ok
    /\ fn_output.value = << <<"a", "_">> >>

\* -------------------------------------------- the error formatters alone
\* the status codes tried: StatusCode holds 100 ..= 999
StatusCodes == {100, 200, 400, 401, 403, 404, 429, 499, 500, 503, 599, 600, 999}

Repeat(ch, n) == [i \in 1 .. n |-> ch]

\* the bodies tried: up to and beyond 180 chars, bare and wrapped in blanks,
\* and one with a blank as its 180th char
BodyLens == {0, 1, 179, 180, 181, 240}
Bodies ==
    {Repeat("x", n) : n \in BodyLens}
    \cup {<<" ">> \o Repeat("x", n) \o <<" ", " ">> : n \in BodyLens}
    \cup {Repeat("x", 179) \o <<" ">> \o Repeat("x", 5)}

\* a formatter is called with a status and the text of a body
InitHttpError ==
    /\ PipelineInit
    /\ EncodeIdle /\ UrlIdle /\ FigmaIdle /\ DraftIdle /\ QueueIdle
    /\ fn_pc = "call"
    /\ fn_input \in [formatter : {"figma", "unsplash"}, status : StatusCodes, body : Bodies]
    /\ fn_output = <<>>

\* figma.rs:137-153
FormatFigmaError ==
    /\ fn_pc = "call"
    /\ fn_input.formatter = "figma"
    /\ fn_output' = format_error(fn_input.status, fn_input.body)
    /\ fn_pc' = "done"
    /\ UNCHANGED fn_input
    /\ UNCHANGED vars_except_fn

\* unsplash.rs:112-128
FormatUnsplashError ==
    /\ fn_pc = "call"
    /\ fn_input.formatter = "unsplash"
    /\ fn_output' = format_unsplash_http_error(fn_input.status, fn_input.body)
    /\ fn_pc' = "done"
    /\ UNCHANGED fn_input
    /\ UNCHANGED vars_except_fn

NextHttpError ==
    \/ FormatFigmaError
    \/ FormatUnsplashError

SpecHttpError == InitHttpError /\ [][NextHttpError]_vars

\* the category the claim gives a status, without the formatter's prefix
CategoryOf(status) ==
    IF status = 401 THEN "auth_failed"
    ELSE IF status = 403 THEN "forbidden"
    ELSE IF status = 404 THEN "not_found"
    ELSE IF status = 429 THEN "rate_limited"
    ELSE IF status \in 500 .. 599 THEN "server_error"
    ELSE "request_failed"

\* C23: both formatters give every status exactly the category of the table
\* (401, 403, 404, 429, 500..599, any other); the message holds the numeric
\* status and at most 180 chars of the trimmed body, taken from its start
C23_ErrorFormat ==
    fn_pc = "done" =>
        LET compact == Trim(fn_input.body)
        IN  /\ fn_output.category = fn_input.formatter \o "_" \o CategoryOf(fn_input.status)
            /\ fn_output.status = fn_input.status
            /\ Len(fn_output.excerpt) <= 180
            /\ Len(fn_output.excerpt) <= Len(compact)
            /\ fn_output.excerpt = SubSeq(compact, 1, Len(fn_output.excerpt))
            /\ Len(compact) <= 180 => fn_output.excerpt = compact

\* a 429 with a body of 181 chars was formatted with its first 180 chars
C23_Witness ==
    /\ fn_pc = "done"
    /\ fn_input.formatter = "unsplash"
    /\ fn_input.status = 429
    /\ Len(Trim(fn_input.body)) = 181
    /\ fn_output.category = "unsplash_rate_limited"
    /\ Len(fn_output.excerpt) = 180

\* ------------------------------------------- main.rs: the deep-link queue
\* main.rs:27
AUTH_DEEP_LINK_QUEUE_MAX == 32

\* distinct URLs beyond the capacity of the queue
ExtraUrls == 3

\* the calls made in one run
MaxCalls == 3

\* the threads that call into the queue
Threads == {1, 2}

\* URLs are told apart by a number
LastUrl == AUTH_DEEP_LINK_QUEUE_MAX + ExtraUrls
Range(a, b) == [i \in 1 .. (b - a + 1) |-> a + i - 1]

\* the url lists pushed: one that fills most of the queue, one that overlaps it
\* and runs past the capacity, one that repeats a URL and brings back an old one
UrlBatches == {Range(1, 20), Range(15, LastUrl), <<1, 1, LastUrl>>}

\* VecDeque::contains
Contains(q, url) == \E i \in 1 .. Len(q) : q[i] = url

RECURSIVE PopFrontWhileOver(_, _)
\* main.rs:67-69, while queue.len() > max { queue.pop_front() }
PopFrontWhileOver(q, max) ==
    IF Len(q) > max THEN PopFrontWhileOver(Tail(q), max) ELSE q

\* threads start with no call, the queue is empty
InitQueue ==
    /\ PipelineInit
    /\ EncodeIdle /\ UrlIdle /\ FigmaIdle /\ FnIdle /\ DraftIdle
    /\ queue = <<>>
    /\ q_lock = 0
    /\ q_pc = [t \in Threads |-> "idle"]
    /\ q_urls = [t \in Threads |-> <<>>]
    /\ q_drained = [t \in Threads |-> <<>>]
    /\ q_calls = 0

\* main.rs:57, push_auth_deep_link_queue is called with some urls
PushCall(t) ==
    /\ q_pc[t] = "idle"
    /\ q_calls < MaxCalls
    /\ \E urls \in UrlBatches : q_urls' = [q_urls EXCEPT ![t] = urls]
    /\ q_pc' = [q_pc EXCEPT ![t] = "push_lock"]
    /\ q_drained' = [q_drained EXCEPT ![t] = <<>>]
    /\ q_calls' = q_calls + 1
    /\ UNCHANGED <<queue, q_lock>>
    /\ UNCHANGED vars_except_queue

\* main.rs:58-61, the mutex is taken
PushLock(t) ==
    /\ q_pc[t] = "push_lock"
    /\ q_lock = 0
    /\ q_lock' = t
    /\ q_pc' = [q_pc EXCEPT ![t] = "push_loop"]
    /\ UNCHANGED <<queue, q_urls, q_drained, q_calls>>
    /\ UNCHANGED vars_except_queue

\* main.rs:62-65, the url is in the queue already: continue
PushSkip(t) ==
    /\ q_pc[t] = "push_loop"
    /\ q_urls[t] # <<>>
    /\ Contains(queue, Head(q_urls[t]))
    /\ q_urls' = [q_urls EXCEPT ![t] = Tail(q_urls[t])]
    /\ UNCHANGED <<queue, q_lock, q_pc, q_drained, q_calls>>
    /\ UNCHANGED vars_except_queue

\* main.rs:62-66 without the loop of lines 67-69
PushBackNoDrop(t) ==
    /\ q_pc[t] = "push_loop"
    /\ q_urls[t] # <<>>
    /\ ~Contains(queue, Head(q_urls[t]))
    /\ queue' = Append(queue, Head(q_urls[t]))
    /\ q_urls' = [q_urls EXCEPT ![t] = Tail(q_urls[t])]
    /\ UNCHANGED <<q_lock, q_pc, q_drained, q_calls>>
    /\ UNCHANGED vars_except_queue

\* main.rs:62-69, the url is pushed at the back, then the front is popped
\* while the queue is over its capacity
PushBack(t) ==
    /\ q_pc[t] = "push_loop"
    /\ q_urls[t] # <<>>
    /\ ~Contains(queue, Head(q_urls[t]))
    /\ queue' = PopFrontWhileOver(Append(queue, Head(q_urls[t])), AUTH_DEEP_LINK_QUEUE_MAX)
    /\ q_urls' = [q_urls EXCEPT ![t] = Tail(q_urls[t])]
    /\ UNCHANGED <<q_lock, q_pc, q_drained, q_calls>>
    /\ UNCHANGED vars_except_queue

\* main.rs:70-71, the urls are done: the guard is dropped
PushUnlock(t) ==
    /\ q_pc[t] = "push_loop"
    /\ q_urls[t] = <<>>
    /\ q_lock' = 0
    /\ q_pc' = [q_pc EXCEPT ![t] = "idle"]
    /\ UNCHANGED <<queue, q_urls, q_drained, q_calls>>
    /\ UNCHANGED vars_except_queue

\* main.rs:337, auth_last_deep_link_get is called
GetCall(t) ==
    /\ q_pc[t] = "idle"
    /\ q_calls < MaxCalls
    /\ q_pc' = [q_pc EXCEPT ![t] = "get_lock"]
    /\ q_drained' = [q_drained EXCEPT ![t] = <<>>]
    /\ q_calls' = q_calls + 1
    /\ UNCHANGED <<queue, q_lock, q_urls>>
    /\ UNCHANGED vars_except_queue

\* main.rs:338-343, the mutex is taken, the queue drained and returned, and the
\* guard dropped
GetDrain(t) ==
    /\ q_pc[t] = "get_lock"
    /\ q_lock = 0
    /\ q_drained' = [q_drained EXCEPT ![t] = queue]
    /\ queue' = <<>>
    /\ q_pc' = [q_pc EXCEPT ![t] = "idle"]
    /\ UNCHANGED <<q_lock, q_urls, q_calls>>
    /\ UNCHANGED vars_except_queue

NextQueue ==
    \E t \in Threads :
        \/ PushCall(t)
        \/ PushLock(t)
        \/ PushSkip(t)
        \/ PushBack(t)
        \/ PushUnlock(t)
        \/ GetCall(t)
        \/ GetDrain(t)

SpecQueue == InitQueue /\ [][NextQueue]_vars

\* no URL is twice in a list
NoDuplicates(q) == \A i, j \in 1 .. Len(q) : q[i] = q[j] => i = j

\* the last n elements of a list, or all of it
LastN(q, n) == IF Len(q) <= n THEN q ELSE SubSeq(q, Len(q) - n + 1, Len(q))

\* one step of the queue: nothing, a drain, or one new URL put at the back with
\* the oldest URLs leaving at the front so that at most 32 stay
QueueStep ==
    \/ queue' = queue
    \/ queue' = <<>>
    \/ \E url \in 1 .. LastUrl :
           /\ ~Contains(queue, url)
           /\ queue' = LastN(Append(queue, url), 32)

\* C25: the deep-link queue holds at most 32 URLs, never the same URL twice,
\* and keeps them in insertion order; a push over 32 entries drops the oldest
\* and keeps the newest
C25_QueueBounded ==
    /\ [](Len(queue) <= 32 /\ NoDuplicates(queue))
    /\ [][QueueStep]_vars

\* the queue is full, and its oldest URLs have been dropped for newer ones
C25_Witness ==
    /\ Len(queue) = 32
    /\ queue[1] > 1
    /\ queue[32] = LastUrl
    /\ q_lock = 0

\* --------------------------------------------------- draft_store.rs: files
\* draft_store.rs:11
DRAFT_VERSION == 1

\* key.as_bytes() for the chars of the keys tried
ByteOf(ch) ==
    CASE ch = "a" -> 97
      [] ch = "A" -> 65
      [] ch = "[" -> 91
      [] ch = " " -> 32

RECURSIVE Base64(_)
\* draft_store.rs:72, URL_SAFE_NO_PAD.encode: each 3 bytes give 4 letters, a
\* rest of 1 or 2 bytes gives 2 or 3; a letter is written as its index in
\* A-Z a-z 0-9 - _ (0 .. 63)
Base64(bytes) ==
    IF bytes = <<>> THEN <<>>
    ELSE IF Len(bytes) = 1
    THEN <<bytes[1] \div 4, (bytes[1] % 4) * 16>>
    ELSE IF Len(bytes) = 2
    THEN <<bytes[1] \div 4, (bytes[1] % 4) * 16 + bytes[2] \div 16, (bytes[2] % 16) * 4>>
    ELSE <<bytes[1] \div 4, (bytes[1] % 4) * 16 + bytes[2] \div 16,
           (bytes[2] % 16) * 4 + bytes[3] \div 64, bytes[3] % 64>>
         \o Base64(SubSeq(bytes, 4, Len(bytes)))

\* draft_store.rs:71-73
encode_key(key) == Base64([i \in 1 .. Len(key) |-> ByteOf(key[i])])

\* draft_store.rs:63-69
sanitize_key(key) ==
    LET trimmed == Trim(key)
    IN  IF trimmed = <<>>
        THEN FnErr("Draft key cannot be empty", "")
        ELSE FnOk(trimmed)

\* draft_store.rs:80-84, the file name "{encode_key(key)}.draft.json" in the
\* drafts directory, as its stem and its dot-separated extensions
draft_path_for_key(key) == [stem |-> encode_key(key), ext |-> <<"draft", "json">>]

\* draft_store.rs:97-98, PathBuf::set_extension: the last extension is replaced
SetExtension(path, extension) ==
    [path EXCEPT !.ext = SubSeq(path.ext, 1, Len(path.ext) - 1) \o <<extension>>]

\* a base64 letter without its case: a-z (26 .. 51) become A-Z (0 .. 25)
FoldCase(letter) == IF letter >= 26 /\ letter <= 51 THEN letter - 26 ELSE letter

\* the name under which the file system keeps a file: as given, or without
\* letter case on a file system that does not tell case apart
FsName(path) ==
    IF fs_case_sensitive
    THEN path
    ELSE [path EXCEPT !.stem = [i \in 1 .. Len(path.stem) |-> FoldCase(path.stem[i])]]

\* Path::exists
Exists(files, path) == FsName(path) \in DOMAIN files

\* fs::read
FsRead(files, path) == files[FsName(path)]

\* fs::write: the file is created or replaced
FsWrite(files, path, data) ==
    [name \in DOMAIN files \cup {FsName(path)} |->
        IF name = FsName(path) THEN data ELSE files[name]]

\* fs::remove_file of an existing file
FsRemove(files, path) == [name \in DOMAIN files \ {FsName(path)} |-> files[name]]

\* fs::rename of an existing file: the target is created or replaced
FsRename(files, from, to) == FsRemove(FsWrite(files, to, FsRead(files, from)), from)

\* serde_json::to_vec(&stored): the fields of StoredDraft in camelCase, in order
ToJson(stored) ==
    << <<"version", stored.version>>, <<"key", stored.key>>, <<"path", stored.path>>,
       <<"content", stored.content>>, <<"savedAtMs", stored.saved_at_ms>> >>

\* the value of a field of a JSON object
JsonField(json, name) == json[CHOOSE i \in 1 .. Len(json) : json[i][1] = name][2]

\* serde_json::from_slice::<StoredDraft>
FromJson(json) ==
    [version |-> JsonField(json, "version"),
     key |-> JsonField(json, "key"),
     path |-> JsonField(json, "path"),
     content |-> JsonField(json, "content"),
     saved_at_ms |-> JsonField(json, "savedAtMs")]


\* draft_store.rs:151-159, the bytes save_draft writes for its arguments
DraftJson(args) ==
    ToJson([version |-> DRAFT_VERSION, key |-> sanitize_key(args.key).value,
            path |-> args.path, content |-> args.content, saved_at_ms |-> args.now])

\* draft_store.rs:149, the file of the key of a call
DraftPath(args) == draft_path_for_key(sanitize_key(args.key).value)

\* draft_store.rs:97-98, its temporary file
TmpPath(args) == SetExtension(DraftPath(args), "tmp")

NoDraftArgs == [op |-> "none", key |-> <<>>, path |-> "None", content |-> "", now |-> 0]
NoDraftResult == [kind |-> "none", err |-> "", payload |-> <<>>]
DraftOk == [kind |-> "ok", err |-> "", payload |-> <<>>]
DraftErr(msg) == [kind |-> "err", err |-> msg, payload |-> <<>>]

\* ------------------------------- draft_store.rs: two concurrent save_draft
\* the two calls
Savers == {1, 2}

\* the keys of the two calls: both trim to the same key
RaceKeys == {<<"a", "a", "A">>, <<" ", "a", "a", "A", " ">>}

\* the drafts directory before the calls: empty, or with a draft of the key
RaceFiles ==
    {<<>>,
     [name \in {draft_path_for_key(<<"a", "a", "A">>)} |->
         ToJson([version |-> DRAFT_VERSION, key |-> <<"a", "a", "A">>, path |-> "None",
                 content |-> "old", saved_at_ms |-> 0])]}

\* two save_draft calls on the same key are entered, each with its own content
InitDraftRace ==
    /\ PipelineInit
    /\ EncodeIdle /\ UrlIdle /\ FigmaIdle /\ FnIdle /\ QueueIdle
    /\ fs \in RaceFiles
    /\ fs_case_sensitive \in BOOLEAN
    /\ d_pc = [p \in Savers |-> "start"]
    /\ \E k1, k2 \in RaceKeys :
           d_args = [p \in Savers |->
                        [op |-> "save", key |-> IF p = 1 THEN k1 ELSE k2, path |-> "None",
                         content |-> IF p = 1 THEN "c1" ELSE "c2", now |-> p]]
    /\ d_result = [p \in Savers |-> NoDraftResult]
    /\ d_saved = <<>>

\* draft_store.rs:147-159 and 93-98: the key is sanitized, the directory made,
\* the paths and the bytes computed
SaveStart(p) ==
    /\ d_pc[p] = "start"
    /\ IF sanitize_key(d_args[p].key).ok
       THEN /\ d_pc' = [d_pc EXCEPT ![p] = "write"]
            /\ UNCHANGED d_result
       ELSE /\ d_pc' = [d_pc EXCEPT ![p] = "done"]
            /\ d_result' = [d_result EXCEPT ![p] = DraftErr(sanitize_key(d_args[p].key).err)]
    /\ UNCHANGED <<fs, fs_case_sensitive, d_args, d_saved>>
    /\ UNCHANGED vars_except_draft

\* draft_store.rs:100, fs::write(&tmp_path, data)
SaveWriteTmp(p) ==
    /\ d_pc[p] = "write"
    /\ fs' = FsWrite(fs, TmpPath(d_args[p]), DraftJson(d_args[p]))
    /\ d_pc' = [d_pc EXCEPT ![p] = "rename"]
    /\ UNCHANGED <<fs_case_sensitive, d_args, d_result, d_saved>>
    /\ UNCHANGED vars_except_draft

\* draft_store.rs:102-103, fs::rename(&tmp_path, path) succeeds
SaveRenameOk(p) ==
    /\ d_pc[p] = "rename"
    /\ Exists(fs, TmpPath(d_args[p]))
    /\ fs' = FsRename(fs, TmpPath(d_args[p]), DraftPath(d_args[p]))
    /\ d_result' = [d_result EXCEPT ![p] = DraftOk]
    /\ d_pc' = [d_pc EXCEPT ![p] = "done"]
    /\ UNCHANGED <<fs_case_sensitive, d_args, d_saved>>
    /\ UNCHANGED vars_except_draft

\* draft_store.rs:102 and 104, fs::rename fails: the temporary file is gone
SaveRenameFail(p) ==
    /\ d_pc[p] = "rename"
    /\ ~Exists(fs, TmpPath(d_args[p]))
    /\ d_pc' = [d_pc EXCEPT ![p] = "fallback"]
    /\ UNCHANGED <<fs, fs_case_sensitive, d_args, d_result, d_saved>>
    /\ UNCHANGED vars_except_draft

\* draft_store.rs:105-111, the draft file is removed when it exists; otherwise
\* the temporary file is removed and the rename error returned
SaveFallback(p) ==
    /\ d_pc[p] = "fallback"
    /\ IF Exists(fs, DraftPath(d_args[p]))
       THEN /\ fs' = FsRemove(fs, DraftPath(d_args[p]))
            /\ d_pc' = [d_pc EXCEPT ![p] = "rename_again"]
            /\ UNCHANGED d_result
       ELSE /\ fs' = FsRemove(fs, TmpPath(d_args[p]))
            /\ d_pc' = [d_pc EXCEPT ![p] = "done"]
            /\ d_result' = [d_result EXCEPT ![p] = DraftErr("rename failed")]
    /\ UNCHANGED <<fs_case_sensitive, d_args, d_saved>>
    /\ UNCHANGED vars_except_draft

\* draft_store.rs:107, the second fs::rename(&tmp_path, path)
SaveRenameAgain(p) ==
    /\ d_pc[p] = "rename_again"
    /\ IF Exists(fs, TmpPath(d_args[p]))
       THEN /\ fs' = FsRename(fs, TmpPath(d_args[p]), DraftPath(d_args[p]))
            /\ d_result' = [d_result EXCEPT ![p] = DraftOk]
       ELSE /\ fs' = fs
            /\ d_result' = [d_result EXCEPT ![p] = DraftErr("rename failed")]
    /\ d_pc' = [d_pc EXCEPT ![p] = "done"]
    /\ UNCHANGED <<fs_case_sensitive, d_args, d_saved>>
    /\ UNCHANGED vars_except_draft

NextDraftRace ==
    \E p \in Savers :
        \/ SaveStart(p)
        \/ SaveWriteTmp(p)
        \/ SaveRenameOk(p)
        \/ SaveRenameFail(p)
        \/ SaveFallback(p)
        \/ SaveRenameAgain(p)

SpecDraftRace == InitDraftRace /\ [][NextDraftRace]_vars

\* both calls have returned
BothReturned == \A p \in Savers : d_pc[p] = "done"

\* C24: whatever the interleaving of the file-system steps of two concurrent
\* save_draft calls on one key, once both have returned both returned Ok and the
\* draft file of the key exists and holds the content written by one of them
C24_ConcurrentSaves ==
    BothReturned =>
        /\ \A p \in Savers : d_result[p].kind = "ok"
        /\ Exists(fs, DraftPath(d_args[1]))
        /\ FsRead(fs, DraftPath(d_args[1])) \in {DraftJson(d_args[p]) : p \in Savers}

\* both calls have returned, one of them with an error, and the key has no draft
DraftLost ==
    /\ BothReturned
    /\ \E p \in Savers : d_result[p].kind = "err"
    /\ ~Exists(fs, DraftPath(d_args[1]))

\* ------------------------------------ draft_store.rs: commands in sequence
\* the keys tried: two that trim to the same key, two other keys, a blank one
DraftKeys == {<<"a", "a", "A">>, <<" ", "a", "a", "A", " ">>, <<"a", "a", "[">>,
              <<"a">>, <<" ">>}
TrimmedKeys == {Trim(key) : key \in DraftKeys} \ {<<>>}
DraftPaths == {"None", "p"}
DraftContents == {"c1", "c2"}

\* no save_draft on the key has returned Ok since its last delete_draft
NoSaved == [path |-> "None", content |-> "", saved |-> FALSE]

\* draft_store.rs:92-114
write_atomic(files, path, data) ==
    LET tmp_path == SetExtension(path, "tmp")
        written == FsWrite(files, tmp_path, data)
    IN  IF Exists(written, tmp_path)
        THEN [ok |-> TRUE, files |-> FsRename(written, tmp_path, path)]
        ELSE IF Exists(written, path)
        THEN LET removed == FsRemove(written, path)
             IN  IF Exists(removed, tmp_path)
                 THEN [ok |-> TRUE, files |-> FsRename(removed, tmp_path, path)]
                 ELSE [ok |-> FALSE, files |-> removed]
        ELSE [ok |-> FALSE, files |-> FsRemove(written, tmp_path)]

\* draft_store.rs:116-130
read_draft(files, path) ==
    IF ~Exists(files, path)
    THEN [ok |-> TRUE, some |-> FALSE, stored |-> <<>>, bytes |-> 0]
    ELSE LET stored == FromJson(FsRead(files, path))
         IN  IF stored.version # DRAFT_VERSION
             THEN [ok |-> FALSE, some |-> FALSE, stored |-> <<>>, bytes |-> 0]
             ELSE [ok |-> TRUE, some |-> TRUE, stored |-> stored,
                   bytes |-> Len(FsRead(files, path))]

\* one caller, an empty drafts directory, on either kind of file system
InitDraft ==
    /\ PipelineInit
    /\ EncodeIdle /\ UrlIdle /\ FigmaIdle /\ FnIdle /\ QueueIdle
    /\ fs = <<>>
    /\ fs_case_sensitive \in BOOLEAN
    /\ d_pc = [p \in {1} |-> "idle"]
    /\ d_args = [p \in {1} |-> NoDraftArgs]
    /\ d_result = [p \in {1} |-> NoDraftResult]
    /\ d_saved = [key \in TrimmedKeys |-> NoSaved]

\* draft_store.rs:146-161, save_draft from call to return
SaveDraft ==
    \E key \in DraftKeys, path \in DraftPaths, content \in DraftContents :
        LET args == [op |-> "save", key |-> key, path |-> path, content |-> content,
                     now |-> 1]
            sanitized == sanitize_key(key)
            written == write_atomic(fs, DraftPath(args), DraftJson(args))
        IN  /\ d_args' = [d_args EXCEPT ![1] = args]
            /\ IF ~sanitized.ok
               THEN /\ d_result' = [d_result EXCEPT ![1] = DraftErr(sanitized.err)]
                    /\ UNCHANGED <<fs, d_saved>>
               ELSE /\ fs' = written.files
                    /\ d_result' = [d_result EXCEPT ![1] =
                                       IF written.ok THEN DraftOk ELSE DraftErr("rename failed")]
                    /\ d_saved' = [d_saved EXCEPT ![sanitized.value] =
                                      IF written.ok
                                      THEN [path |-> path, content |-> content, saved |-> TRUE]
                                      ELSE NoSaved]
            /\ UNCHANGED <<fs_case_sensitive, d_pc>>
            /\ UNCHANGED vars_except_draft

\* draft_store.rs:163-186, load_draft from call to return
LoadDraft ==
    \E key \in DraftKeys :
        LET args == [NoDraftArgs EXCEPT !.op = "load", !.key = key]
            sanitized == sanitize_key(key)
            read == read_draft(fs, DraftPath(args))
        IN  /\ d_args' = [d_args EXCEPT ![1] = args]
            /\ IF ~sanitized.ok
               THEN /\ d_result' = [d_result EXCEPT ![1] = DraftErr(sanitized.err)]
                    /\ fs' = fs
               ELSE IF ~read.ok
               THEN /\ d_result' = [d_result EXCEPT ![1] = DraftErr("Unsupported draft version")]
                    /\ fs' = FsRemove(fs, DraftPath(args))
               ELSE /\ fs' = fs
                    /\ d_result' = [d_result EXCEPT ![1] =
                           [kind |-> "ok", err |-> "",
                            payload |-> IF read.some
                                        THEN [some |-> TRUE,
                                              key |-> read.stored.key,
                                              path |-> read.stored.path,
                                              content |-> read.stored.content,
                                              saved_at_ms |-> read.stored.saved_at_ms,
                                              compressed_bytes |-> read.bytes,
                                              uncompressed_bytes |-> read.bytes]
                                        ELSE [some |-> FALSE]]]
            /\ UNCHANGED <<fs_case_sensitive, d_pc, d_saved>>
            /\ UNCHANGED vars_except_draft

\* draft_store.rs:188-197, delete_draft from call to return
DeleteDraft ==
    \E key \in DraftKeys :
        LET args == [NoDraftArgs EXCEPT !.op = "delete", !.key = key]
            sanitized == sanitize_key(key)
        IN  /\ d_args' = [d_args EXCEPT ![1] = args]
            /\ IF ~sanitized.ok
               THEN /\ d_result' = [d_result EXCEPT ![1] = DraftErr(sanitized.err)]
                    /\ UNCHANGED <<fs, d_saved>>
               ELSE /\ fs' = FsRemove(fs, DraftPath(args))
                    /\ d_result' = [d_result EXCEPT ![1] = DraftOk]
                    /\ d_saved' = [d_saved EXCEPT ![sanitized.value] = NoSaved]
            /\ UNCHANGED <<fs_case_sensitive, d_pc>>
            /\ UNCHANGED vars_except_draft

NextDraft ==
    \/ SaveDraft
    \/ LoadDraft
    \/ DeleteDraft

SpecDraft == InitDraft /\ [][NextDraft]_vars

\* load_draft has just returned for a key that a save_draft saved and no later
\* save_draft or delete_draft touched
LoadedSavedKey ==
    /\ d_args[1].op = "load"
    /\ Trim(d_args[1].key) # <<>>
    /\ d_saved[Trim(d_args[1].key)].saved

\* C27: after save_draft(key, path, content) returned Ok, load_draft with any
\* key of the same trimmed form returns Some payload with the trimmed key and
\* the saved path and content, until the next save_draft or delete_draft on
\* that key; calls on keys of another trimmed form never change it
C27_DraftRoundTrip ==
    LoadedSavedKey =>
        /\ d_result[1].kind = "ok"
        /\ d_result[1].payload.some
        /\ d_result[1].payload.key = Trim(d_args[1].key)
        /\ d_result[1].payload.path = d_saved[Trim(d_args[1].key)].path
        /\ d_result[1].payload.content = d_saved[Trim(d_args[1].key)].content

\* the round trip on a file system that tells letter case apart
RoundTripCaseSensitive == fs_case_sensitive => C27_DraftRoundTrip

\* load_draft returned the draft of another key
LoadedOtherKey ==
    /\ LoadedSavedKey
    /\ d_result[1].kind = "ok"
    /\ d_result[1].payload.some
    /\ d_result[1].payload.key # Trim(d_args[1].key)

=============================================================================
